---------------------------- MODULE Spec2Model ----------------------------
(***************************************************************************)
(* A model of github.com/Hukyl/mlgo: the matrix engine, the Dense and      *)
(* Dropout layers, and the network orchestrator (Predict, ForwardPropagate,*)
(* BackPropagate, ComputeCost, Train).                                     *)
(*                                                                         *)
(* float64 values are modelled as exact fractions <<n, d>> in lowest terms *)
(* with d > 0, extended with the IEEE special values +Inf = <<1, 0>>,      *)
(* -Inf = <<-1, 0>> and NaN = <<0, 0>>.  Rounding, overflow of finite      *)
(* values and the sign of zero are not modelled.                           *)
(***************************************************************************)
EXTENDS Integers, Sequences, FiniteSets, TLC

(***************************************************************************)
(* float64 arithmetic                                                      *)
(***************************************************************************)
Abs(n) == IF n < 0 THEN -n ELSE n

Sign(n) == IF n < 0 THEN -1 ELSE IF n > 0 THEN 1 ELSE 0

RECURSIVE GCD(_, _)
GCD(a, b) == IF b = 0 THEN a ELSE GCD(b, a % b)

\* The fraction n/d in lowest terms; d = 0 gives the special value of n's sign.
Frac(n, d) ==
    IF d = 0 THEN <<Sign(n), 0>>
    ELSE LET g == GCD(Abs(n), Abs(d))
             s == IF d < 0 THEN -1 ELSE 1
         IN  <<s * (n \div g), s * (d \div g)>>

F(n) == <<n, 1>>
NaN == <<0, 0>>
PosInf == <<1, 0>>
NegInf == <<-1, 0>>

IsNaN(a) == a = NaN
IsInf(a) == a = PosInf \/ a = NegInf
IsFinite(a) == a[2] > 0

FNeg(a) == <<-a[1], a[2]>>

FAdd(a, b) ==
    IF IsNaN(a) \/ IsNaN(b) THEN NaN
    ELSE IF IsInf(a) /\ IsInf(b) THEN (IF a = b THEN a ELSE NaN)
    ELSE IF IsInf(a) THEN a
    ELSE IF IsInf(b) THEN b
    ELSE LET g == GCD(a[2], b[2])
         IN  Frac(a[1] * (b[2] \div g) + b[1] * (a[2] \div g),
                  a[2] * (b[2] \div g))

FSub(a, b) == FAdd(a, FNeg(b))

FMul(a, b) ==
    IF IsNaN(a) \/ IsNaN(b) THEN NaN
    ELSE IF IsInf(a) \/ IsInf(b)
         THEN <<Sign(a[1]) * Sign(b[1]), 0>>      \* Inf * 0 = NaN
    ELSE LET g1 == GCD(Abs(a[1]), b[2])
             g2 == GCD(Abs(b[1]), a[2])
         IN  Frac((a[1] \div g1) * (b[1] \div g2),
                  (a[2] \div g2) * (b[2] \div g1))

FDiv(a, b) ==
    IF IsNaN(a) \/ IsNaN(b) THEN NaN
    ELSE IF IsInf(b) THEN (IF IsInf(a) THEN NaN ELSE F(0))
    ELSE IF b[1] = 0 THEN <<Sign(a[1]), 0>>       \* x / 0 = +-Inf, 0 / 0 = NaN
    ELSE IF IsInf(a) THEN <<Sign(a[1]) * Sign(b[1]), 0>>
    ELSE FMul(a, Frac(b[2], b[1]))

\* a < b; every comparison with NaN is false.
FLt(a, b) ==
    IF IsNaN(a) \/ IsNaN(b) THEN FALSE
    ELSE IF IsInf(a) \/ IsInf(b)
         THEN (IF a = b THEN FALSE
               ELSE a = NegInf \/ b = PosInf)
    ELSE LET qa == a[1] \div a[2]
             qb == b[1] \div b[2]
         IN  IF qa # qb THEN qa < qb
             ELSE (a[1] % a[2]) * b[2] < (b[1] % b[2]) * a[2]

FGt(a, b) == FLt(b, a)
FGe(a, b) == ~IsNaN(a) /\ ~IsNaN(b) /\ ~FLt(a, b)
FAbs(a) == <<Abs(a[1]), a[2]>>

\* math.Max(x, y) of Go: NaN if either is NaN.
FMax(a, b) == IF IsNaN(a) \/ IsNaN(b) THEN NaN ELSE IF FLt(a, b) THEN b ELSE a

(***************************************************************************)
(* The matrix engine.  A matrix is its backing row-major data [][]T: a     *)
(* sequence of rows.  Indices are 0-based as in the source.                *)
(***************************************************************************)
RowCount(m) == Len(m)

ColumnCount(m) == IF Len(m) > 0 THEN Len(m[1]) ELSE 0

Size(m) == <<RowCount(m), ColumnCount(m)>>

\* A comparison of sizes that looks at the row counts only.
AreSameRowCount(m1, m2) == RowCount(m1) = RowCount(m2)

AreSameSize(m1, m2) ==
    RowCount(m1) = RowCount(m2) /\ ColumnCount(m1) = ColumnCount(m2)

inRange(m, r, c) == 0 <= r /\ r < RowCount(m) /\ 0 <= c /\ c < ColumnCount(m)

\* At returns the zero value (and an error) when the indices are out of range.
At(m, r, c) == IF inRange(m, r, c) THEN m[r + 1][c + 1] ELSE F(0)

\* Set leaves the matrix alone (and returns an error) when out of range.
Set(m, r, c, value) ==
    IF inRange(m, r, c)
    THEN [m EXCEPT ![r + 1] = [@ EXCEPT ![c + 1] = value]]
    ELSE m

\* The matrix of the given size whose element (r, c) is Elem(r, c), 0-based.
Build(rowCount, columnCount, Elem(_, _)) ==
    [r \in 1..rowCount |-> [c \in 1..columnCount |-> Elem(r - 1, c - 1)]]

NewZeroMatrix(rowCount, columnCount) ==
    LET Zero(r, c) == F(0) IN Build(rowCount, columnCount, Zero)

NewOnesMatrix(rowCount, columnCount) ==
    LET One(r, c) == F(1) IN Build(rowCount, columnCount, One)

\* A nil Matrix: what the operations return beside an error.
NilMatrix == << << <<0, -1>> >> >>

\* What stands for the value of an expression whose evaluation panics: a
\* method called on a nil Matrix (nil pointer dereference).
PanicMatrix == << << <<0, -2>> >> >>

IsNil(m) == m = NilMatrix
Panics(m) == m = NilMatrix \/ m = PanicMatrix

\* The sum of the terms of a sequence, added in index order from 0.
RECURSIVE SumSeq(_)
SumSeq(s) == IF Len(s) = 0 THEN F(0)
             ELSE FAdd(SumSeq(SubSeq(s, 1, Len(s) - 1)), s[Len(s)])

Add(m1, m2) ==
    IF Panics(m1) \/ Panics(m2) THEN PanicMatrix
    ELSE IF ~AreSameSize(m1, m2) THEN NilMatrix
    ELSE LET Elem(r, c) == FAdd(At(m1, r, c), At(m2, r, c))
         IN  Build(RowCount(m1), ColumnCount(m1), Elem)

Multiply(m1, m2) ==
    IF Panics(m1) \/ Panics(m2) THEN PanicMatrix
    ELSE IF ColumnCount(m1) # RowCount(m2) THEN NilMatrix
    ELSE LET Elem(r, c) ==
                 SumSeq([k \in 1..ColumnCount(m1) |->
                            FMul(At(m1, r, k - 1), At(m2, k - 1, c))])
         IN  Build(RowCount(m1), ColumnCount(m2), Elem)

MultiplyByScalar(m, k) ==
    IF Panics(m) THEN PanicMatrix ELSE
    LET Elem(r, c) == FMul(At(m, r, c), k)
    IN  Build(RowCount(m), ColumnCount(m), Elem)

MultiplyElementwise(m1, m2) ==
    IF Panics(m1) \/ Panics(m2) THEN PanicMatrix
    ELSE IF ~AreSameSize(m1, m2) THEN NilMatrix
    ELSE LET Elem(r, c) == FMul(At(m1, r, c), At(m2, r, c))
         IN  Build(RowCount(m1), ColumnCount(m1), Elem)

\* A transposition that also reverses the order of the rows it reads.
TOfReversedRows(m) ==
    IF Panics(m) THEN PanicMatrix ELSE
    LET Elem(r, c) == At(m, RowCount(m) - 1 - c, r)
    IN  Build(ColumnCount(m), RowCount(m), Elem)

T(m) ==
    IF Panics(m) THEN PanicMatrix ELSE
    LET Elem(r, c) == At(m, c, r)
    IN  Build(ColumnCount(m), RowCount(m), Elem)

DeepCopy(m) ==
    IF Panics(m) THEN PanicMatrix ELSE
    LET Elem(r, c) == At(m, r, c)
    IN  Build(RowCount(m), ColumnCount(m), Elem)

ApplyByElement(m, f(_)) ==
    IF Panics(m) THEN PanicMatrix ELSE
    LET Elem(r, c) == f(At(m, r, c))
    IN  Build(RowCount(m), ColumnCount(m), Elem)

\* NewMatrix: the matrix and the error, for the slice of rows data.
NewMatrix(data) ==
    IF Len(data) = 0 THEN [m |-> NilMatrix, err |-> "at least one row"]
    ELSE IF \E r \in 2..Len(data) : Len(data[r]) # Len(data[1])
    THEN [m |-> NilMatrix, err |-> "incosistent column count"]
    ELSE [m |-> data, err |-> ""]

IdentityMatrix(rowCount) ==
    LET Elem(r, c) == IF r = c THEN F(1) ELSE F(0) IN Build(rowCount, rowCount, Elem)

\* matrix.Minor(i, j): the matrix without row i and column j.
Minor(m, row, column) ==
    IF ~inRange(m, row, column) THEN [m |-> NilMatrix, err |-> "indices are not in range"]
    ELSE LET Elem(r, c) == At(m, IF r >= row THEN r + 1 ELSE r,
                                 IF c >= column THEN c + 1 ELSE c)
         IN  [m |-> Build(RowCount(m) - 1, ColumnCount(m) - 1, Elem), err |-> ""]

\* T(math.Pow(-1, float64(k)))
MinusOneToThe(k) == IF k % 2 = 0 THEN F(1) ELSE F(-1)

\* matrix.Determinant: the value and the error.
RECURSIVE Determinant(_)
Determinant(m) ==
    IF RowCount(m) # ColumnCount(m)
    THEN [v |-> F(0), err |-> "matrix is not square (n x n)"]
    ELSE IF RowCount(m) = 1 THEN [v |-> At(m, 0, 0), err |-> ""]
    ELSE IF RowCount(m) = 2
    THEN [v |-> FSub(FMul(At(m, 0, 0), At(m, 1, 1)), FMul(At(m, 0, 1), At(m, 1, 0))),
          err |-> ""]
    ELSE [v |-> SumSeq([k \in 1..ColumnCount(m) |->
                          FMul(FMul(MinusOneToThe(k - 1), At(m, 0, k - 1)),
                               Determinant(Minor(m, 0, k - 1).m).v)]),
          err |-> ""]

\* matrix.Inverse: the matrix and the error.  The determinant it tests is
\* the expansion along the last row it went through.
Inverse(m) ==
    IF RowCount(m) # ColumnCount(m)
    THEN [m |-> NilMatrix, err |-> "matrix is not square (n x n)"]
    ELSE LET minorDeterminant(r, c) == Determinant(Minor(m, r, c).m).v
             Cofactor(r, c) == FMul(MinusOneToThe(r + c), minorDeterminant(r, c))
             last == RowCount(m) - 1
             determinant ==
                 IF RowCount(m) = 0 THEN F(0)
                 ELSE SumSeq([k \in 1..ColumnCount(m) |->
                                 FMul(FMul(MinusOneToThe(last + k - 1), At(m, last, k - 1)),
                                      minorDeterminant(last, k - 1))])
         IN  IF determinant = F(0)
             THEN [m |-> NilMatrix, err |-> "matrix is singular"]
             ELSE [m |-> MultiplyByScalar(T(Build(RowCount(m), ColumnCount(m), Cofactor)),
                                          FDiv(F(1), determinant)),
                   err |-> ""]

\* A Clip that changes nothing.
ClipNothing(m, lower, upper) == m

Clip(m, lower, upper) ==
    IF Panics(m) THEN PanicMatrix ELSE
    LET Elem(r, c) ==
            LET v == At(m, r, c)
            IN  IF FLt(v, lower) THEN lower
                ELSE IF FGt(v, upper) THEN upper
                ELSE v
    IN  Build(RowCount(m), ColumnCount(m), Elem)

\* The row after `append(row, row[:columns]...)` has been done n times.
RECURSIVE AppendCopies(_, _, _)
AppendCopies(row, head, n) ==
    IF n <= 0 THEN row ELSE AppendCopies(row \o head, head, n - 1)

\* The rows of index i+j, 0 <= j < rows, receive a copy of the rows of index
\* j, for i = rows, 2*rows, ... below the row count.
RECURSIVE CopyBlocks(_, _, _)
CopyBlocks(data, rows, i) ==
    IF i >= Len(data) THEN data
    ELSE CopyBlocks([k \in 1..Len(data) |->
                        IF k - 1 >= i /\ k - 1 < i + rows
                        THEN data[k - i] ELSE data[k]],
                    rows, i + rows)

\* A Broadcast that leaves the rows it appends filled with zeros.
BroadcastWithoutCopy(m, newRows, newColumns) ==
    LET rows == RowCount(m)
        columns == ColumnCount(m)
    IN  IF \/ newRows < rows \/ newColumns < columns
           \/ newRows % rows # 0 \/ newColumns % columns # 0
        THEN [m |-> m,
              err |-> "invalid broadcast size (must be scalable by a positive factor)"]
        ELSE [m |-> [i \in 1..rows |->
                        AppendCopies(m[i], SubSeq(m[i], 1, columns),
                                     (newColumns \div columns) - 1)]
                    \o NewZeroMatrix(newRows - rows, newColumns),
              err |-> ""]

\* Broadcast works in place: m is the content of the matrix after the call.
\* Defined for matrices of at least one row and one column (the remainders
\* by a zero row or column count are a run-time panic).
Broadcast(m, newRows, newColumns) ==
    LET rows == RowCount(m)
        columns == ColumnCount(m)
    IN  IF \/ newRows < rows \/ newColumns < columns
           \/ newRows % rows # 0 \/ newColumns % columns # 0
        THEN [m |-> m,
              err |-> "invalid broadcast size (must be scalable by a positive factor)"]
        ELSE LET widened == [i \in 1..rows |->
                                AppendCopies(m[i], SubSeq(m[i], 1, columns),
                                             (newColumns \div columns) - 1)]
                 grown == widened \o NewZeroMatrix(newRows - rows, newColumns)
             IN  [m |-> CopyBlocks(grown, rows, rows), err |-> ""]

(***************************************************************************)
(* Activation functions (Linear, ReLU) and the loss function (SquareLoss). *)
(***************************************************************************)
ReLUApply(v) == FMax(v, F(0))

ReLUDerivative(v) == IF FGe(v, F(0)) THEN F(1) ELSE F(0)

\* ActivationFunction.ApplyMatrix works in place: the result is the new
\* content of the matrix it was given.
ActivationApplyMatrix(a, m) ==
    IF a = "ReLU" THEN ApplyByElement(m, ReLUApply) ELSE m

ActivationDerivativeMatrix(a, m) ==
    IF a = "ReLU" THEN ApplyByElement(DeepCopy(m), ReLUDerivative)
    ELSE IF Panics(m) THEN PanicMatrix
    ELSE NewOnesMatrix(RowCount(m), ColumnCount(m))

SquareHalf(t) == FDiv(FMul(t, t), F(2))

LossApplyMatrix(y, yHat) ==
    ApplyByElement(Add(y, MultiplyByScalar(yHat, F(-1))), SquareHalf)

LossApplyDerivativeMatrix(y, yHat) == Add(yHat, MultiplyByScalar(y, F(-1)))

(***************************************************************************)
(* The accuracy metric injected into the parameters: metric.Accuracy.      *)
(***************************************************************************)
DefaultEpsilon == Frac(1, 100000)

AccuracyCalculate(a, yTrue, yHat) ==
    LET precision == IF a.Epsilon = F(0) THEN DefaultEpsilon ELSE a.Epsilon
        Correct(c) == \A r \in 0..(RowCount(yTrue) - 1) :
                          ~FGt(FAbs(FSub(At(yHat, r, c), At(yTrue, r, c))), precision)
        correct == Cardinality({c \in 0..(ColumnCount(yTrue) - 1) : Correct(c)})
    IN  FDiv(F(correct), F(ColumnCount(yTrue)))

(***************************************************************************)
(* utils.NeuralNetworkParameters                                           *)
(***************************************************************************)
defaultEpochCount == 5

defaultLearningRate == Frac(1, 100)

\* A learning rate that does not decay.
LearningRateWithoutDecay(nnp) == nnp.InitialLearningRate

LearningRate(nnp) ==
    FDiv(nnp.InitialLearningRate,
         FAdd(F(1), FMul(nnp.LearningRateDecay, F(nnp.currentEpoch))))

\* A Validate that leaves the epoch count as given.
ValidateKeepingEpochCount(nnp) ==
    [nnp EXCEPT
        !.InitialLearningRate = IF @ = F(0) THEN defaultLearningRate ELSE @,
        !.ClipValue = IF @ = F(0) THEN PosInf ELSE @]

Validate(nnp) ==
    [nnp EXCEPT
        !.InitialLearningRate = IF @ = F(0) THEN defaultLearningRate ELSE @,
        !.EpochCount = IF @ = 0 THEN defaultEpochCount ELSE @,
        !.ClipValue = IF @ = F(0) THEN PosInf ELSE @]

\* A ResetEpoch that leaves the counter as it is.
KeepEpoch(nnp) == nnp

ResetEpoch(nnp) == [nnp EXCEPT !.currentEpoch = 0]

IncrementEpoch(nnp) == [nnp EXCEPT !.currentEpoch = @ + 1]

(***************************************************************************)
(* Layers.  A layer is a record; the fields a variant does not have hold   *)
(* nil values.                                                             *)
(***************************************************************************)
Dense(W, b, a) ==
    [Type |-> "Dense", weights |-> W, bias |-> b, activation |-> a,
     inputSize |-> 0, rate |-> F(0)]

NewDropout(inputSize, rate) ==
    [Type |-> "Dropout", weights |-> NilMatrix, bias |-> NilMatrix,
     activation |-> "nil", inputSize |-> inputSize, rate |-> rate]

\* No layer is for training only.
IsTrainingNever(l) == FALSE

IsTraining(l) == l.Type = "Dropout"

InputSize(l) ==
    IF l.Type = "Dense" THEN <<ColumnCount(l.weights), 1>> ELSE <<l.inputSize, 1>>

OutputSize(l) ==
    IF l.Type = "Dense" THEN <<RowCount(l.weights), 1>> ELSE <<l.inputSize, 1>>

\* dense.ForwardPropagate: output[0] = W*X + b, output[1] = activation(output[0]).
denseForwardPropagate(d, X) ==
    LET linearCombination == Multiply(d.weights, X)
        broadcastedBias == Multiply(d.bias, NewOnesMatrix(1, ColumnCount(X)))
        sum == Add(linearCombination, broadcastedBias)
    IN  IF IsNil(linearCombination) \/ IsNil(sum)
        THEN [output |-> <<NilMatrix, NilMatrix>>, err |-> TRUE]
        ELSE [output |-> <<sum, ActivationApplyMatrix(d.activation, DeepCopy(sum))>>,
              err |-> FALSE]

\* dropout.ForwardPropagate; U is the matrix uniformMatrix(X.Size(), 0, 1) drew.
dropoutForwardPropagate(d, X, U) ==
    LET keepProb == FSub(F(1), d.rate)
        Elem(r, c) ==
            IF r < d.inputSize
            THEN (IF FLt(At(U, r, c), keepProb) THEN At(X, r, c) ELSE F(0))
            ELSE At(U, r, c)
        output == IF Panics(X) THEN PanicMatrix
                  ELSE Build(RowCount(X), ColumnCount(X), Elem)
    IN  [output |-> <<output, output>>, err |-> FALSE]

\* uniformMatrix(size, 0, 1): the matrices the random source can produce.
\* The draws are taken from DrawValues, on both sides of the keep probability.
DrawValues == {Frac(1, 4), Frac(3, 4)}

uniformMatrix(size) == [1..size[1] -> [1..size[2] -> DrawValues]]

\* The outcomes of Layer.ForwardPropagate(X): one for a Dense layer, one per
\* draw of the random source for a Dropout layer.
layerForwardPropagate(l, X) ==
    IF l.Type = "Dense" THEN {denseForwardPropagate(l, X)}
    ELSE IF Panics(X) THEN {[output |-> <<PanicMatrix, PanicMatrix>>, err |-> FALSE]}
    ELSE {dropoutForwardPropagate(l, X, U) : U \in uniformMatrix(Size(X))}

\* dense.updateWeights: the layer after the update.
\* An update that leaves the layer as it is.
updateNothing(d, dLdZ, input, parameters) == d

\* An update that takes the sums over the samples, not their means.
updateWeightsBySum(d, dLdZ, input, parameters) ==
    LET db == Multiply(dLdZ, NewOnesMatrix(ColumnCount(input), 1))
        dW == Multiply(dLdZ, T(input))
        decayed_dW == Add(dW, MultiplyByScalar(d.weights, parameters.WeightDecay))
        decayed_db == Add(db, MultiplyByScalar(d.bias, parameters.WeightDecay))
    IN  [d EXCEPT
            !.weights = Add(d.weights,
                            MultiplyByScalar(decayed_dW, FNeg(LearningRate(parameters)))),
            !.bias = Add(d.bias,
                         MultiplyByScalar(decayed_db, FNeg(LearningRate(parameters))))]

updateWeights(d, dLdZ, input, parameters) ==
    LET db == Multiply(dLdZ, NewOnesMatrix(ColumnCount(input), 1))
        dW == Multiply(dLdZ, T(input))
        columns == F(ColumnCount(input))
        decayed_dW == Add(MultiplyByScalar(dW, FDiv(F(1), columns)),
                          MultiplyByScalar(d.weights, parameters.WeightDecay))
        decayed_db == Add(MultiplyByScalar(db, FDiv(F(1), columns)),
                          MultiplyByScalar(d.bias, parameters.WeightDecay))
    IN  [d EXCEPT
            !.weights = Add(d.weights,
                            MultiplyByScalar(decayed_dW, FNeg(LearningRate(parameters)))),
            !.bias = Add(d.bias,
                         MultiplyByScalar(decayed_db, FNeg(LearningRate(parameters))))]

\* dense.BackPropagate: the layer after its weight update, and the matrix
\* it returns for the previous layer.
denseBackPropagate(d, nextLayerPropagation, X, A, parameters) ==
    LET dAdZ == ActivationDerivativeMatrix(d.activation, A[1])
        dLdZ == MultiplyElementwise(nextLayerPropagation, dAdZ)
        updated == updateWeights(d, dLdZ, X, parameters)
    IN  [layer |-> updated, result |-> Multiply(T(updated.weights), dLdZ)]

dropoutBackPropagate(d, nextLayerPropagation, X, A, parameters) ==
    [layer |-> d, result |-> nextLayerPropagation]

layerBackPropagate(l, nextLayerPropagation, X, A, parameters) ==
    IF l.Type = "Dense"
    THEN denseBackPropagate(l, nextLayerPropagation, X, A, parameters)
    ELSE dropoutBackPropagate(l, nextLayerPropagation, X, A, parameters)

(***************************************************************************)
(* The network: nn{layers, LossFunction}.  ls is the layer slice; layer j  *)
(* of the source (0-based) is ls[j + 1].                                   *)
(***************************************************************************)
NetInputSize(ls) == InputSize(ls[1])

NetOutputSize(ls) == OutputSize(ls[Len(ls)])

\* nn.Predict: the matrices it can return.  Errors of the layers are dropped.
RECURSIVE PredictFrom(_, _, _)
PredictFrom(ls, k, Yin) ==
    IF k > Len(ls) THEN {Yin}
    ELSE IF IsTraining(ls[k]) THEN PredictFrom(ls, k + 1, Yin)
    ELSE UNION {PredictFrom(ls, k + 1, o.output[2]) :
                    o \in layerForwardPropagate(ls[k], Yin)}

Predict(ls, Xin) == PredictFrom(ls, 1, Xin)

\* A forward pass that feeds each layer the linear combination of the layer
\* before it, not its activation.
RECURSIVE CachesOfLinearUpTo(_, _, _)
CachesOfLinearUpTo(ls, Xin, k) ==
    IF k = 0 THEN {<< <<Xin, Xin>> >>}
    ELSE UNION {{Append(c, o.output) : o \in layerForwardPropagate(ls[k], c[k][1])} :
                    c \in CachesOfLinearUpTo(ls, Xin, k - 1)}

\* nn.ForwardPropagate: the caches it can return, each indexed 0..len(layers).
\* Errors of the layers are dropped.
RECURSIVE CachesUpTo(_, _, _)
CachesUpTo(ls, Xin, k) ==
    IF k = 0 THEN {<< <<Xin, Xin>> >>}
    ELSE UNION {{Append(c, o.output) : o \in layerForwardPropagate(ls[k], c[k][2])} :
                    c \in CachesUpTo(ls, Xin, k - 1)}

ForwardPropagate(ls, Xin) ==
    {[k \in 0..Len(ls) |-> c[k + 1]] : c \in CachesUpTo(ls, Xin, Len(ls))}

\* nn.ComputeCost
ComputeCost(yHat, Yb) ==
    LET losses == LossApplyMatrix(Yb, yHat)
        rows == RowCount(losses)
        columns == ColumnCount(losses)
        \* for column { for row { v, _ := losses.At(column, row); cost += v } }
        terms == [n \in 1..(columns * rows) |->
                     At(losses, (n - 1) \div rows, (n - 1) % rows)]
    IN  FDiv(SumSeq(terms), F(columns))

\* The condition on which Train gives up:
\* math.IsNaN(cost) || math.IsInf(cost, 0) || cost == 0
CostIsInvalidIgnoringZero(c) == IsNaN(c) \/ IsInf(c)

CostIsInvalid(c) == IsNaN(c) \/ IsInf(c) \/ c = F(0)

\* A validation that looks at the first batch only.
validateFirstBatchOnly(ls, Xs, Ys, k) ==
    IF k > 1 \/ k > Len(Xs) THEN ""
    ELSE IF RowCount(Xs[k]) # NetInputSize(ls)[1] THEN "invalid input size"
    ELSE IF RowCount(Ys[k]) # NetOutputSize(ls)[1] THEN "invalid output size"
    ELSE IF ColumnCount(Xs[k]) # ColumnCount(Ys[k]) THEN "incosistent sample count"
    ELSE ""

\* nn.validateTrainSamples: the error text, "" for nil.
RECURSIVE validateFrom(_, _, _, _)
validateFrom(ls, Xs, Ys, k) ==
    IF k > Len(Xs) THEN ""
    ELSE LET errorText ==
                 IF RowCount(Xs[k]) # NetInputSize(ls)[1] THEN "invalid input size"
                 ELSE IF RowCount(Ys[k]) # NetOutputSize(ls)[1] THEN "invalid output size"
                 ELSE IF ColumnCount(Xs[k]) # ColumnCount(Ys[k])
                      THEN "incosistent sample count"
                 ELSE ""
         IN  IF errorText # "" THEN errorText ELSE validateFrom(ls, Xs, Ys, k + 1)

validateTrainSamples(ls, Xs, Ys) == validateFrom(ls, Xs, Ys, 1)

(***************************************************************************)
(* The layer constructors of package layers.                               *)
(***************************************************************************)
\* A nil Layer: what a constructor returns beside an error.
NilLayer ==
    [Type |-> "nil", weights |-> NilMatrix, bias |-> NilMatrix,
     activation |-> "nil", inputSize |-> 0, rate |-> F(0)]

\* A NewDense that checks nothing.
NewDenseUnchecked(W, b, a) == [layer |-> Dense(W, b, a), err |-> ""]

NewDense(W, b, a) ==
    LET l == Dense(W, b, a)
    IN  IF Size(b)[1] # OutputSize(l)[1]
        THEN [layer |-> NilLayer, err |-> "invalid bias size"]
        ELSE [layer |-> l, err |-> ""]

\* NewRandomDense; generated is the matrix of the values wi.Generate gave,
\* element (i, j) for W.Set(i, j, ...).  weightSize is {inputs, outputs}.
NewRandomDense(weightSize, a, generated) ==
    LET Elem(r, c) == At(generated, r, c)
        W == Build(weightSize[2], weightSize[1], Elem)
        b == NewZeroMatrix(weightSize[2], 1)
    IN  Dense(W, b, a)

(***************************************************************************)
(* JSON.  A document is the tree encoding/json builds or reads: a value is *)
(* a record with its kind t and its content v.  An object's content is a   *)
(* function from its keys; JAbsent is what looking up a missing key gives. *)
(***************************************************************************)
JNull == [t |-> "null", v |-> <<>>]

JAbsent == [t |-> "absent", v |-> <<>>]

JNumber(f) == [t |-> "number", v |-> f]

JString(str) == [t |-> "string", v |-> str]

JArray(seq) == [t |-> "array", v |-> seq]

JObject(fields) == [t |-> "object", v |-> fields]

Field(o, key) == IF key \in DOMAIN o.v THEN o.v[key] ELSE JAbsent

\* json.Marshal of one float64: NaN and the infinities are unsupported values.
MarshalFloat(f) ==
    IF IsFinite(f) THEN [doc |-> JNumber(f), err |-> ""]
    ELSE [doc |-> JNull, err |-> "json: unsupported value"]

\* matrix.MarshalJSON: json.Marshal(m.data); a nil Matrix marshals as null.
matrixMarshalJSON(m) ==
    IF IsNil(m) THEN [doc |-> JNull, err |-> ""]
    ELSE IF \E r \in 1..Len(m) : \E c \in 1..Len(m[r]) : MarshalFloat(m[r][c]).err # ""
    THEN [doc |-> JNull, err |-> "json: unsupported value"]
    ELSE [doc |-> JArray([r \in 1..Len(m) |->
                            JArray([c \in 1..Len(m[r]) |-> MarshalFloat(m[r][c]).doc])]),
          err |-> ""]

\* matrix.UnmarshalJSON: json.Unmarshal(data, &m.data) into a [][]float64.
matrixUnmarshalJSON(data) ==
    IF data.t = "null" THEN [m |-> <<>>, err |-> ""]
    ELSE IF data.t # "array" THEN [m |-> NilMatrix, err |-> "json: cannot unmarshal"]
    ELSE IF \E r \in 1..Len(data.v) :
                \/ data.v[r].t \notin {"array", "null"}
                \/ /\ data.v[r].t = "array"
                   /\ \E c \in 1..Len(data.v[r].v) :
                          data.v[r].v[c].t \notin {"number", "null"}
    THEN [m |-> NilMatrix, err |-> "json: cannot unmarshal"]
    ELSE [m |-> [r \in 1..Len(data.v) |->
                    IF data.v[r].t = "null" THEN <<>>
                    ELSE [c \in 1..Len(data.v[r].v) |->
                             IF data.v[r].v[c].t = "null" THEN F(0)
                             ELSE data.v[r].v[c].v]],
          err |-> ""]

\* reflect.TypeOf(x).Name() for an activation: an activation value is
\* represented by the name of its type.
TypeName(a) == a

\* A registry that falls back to Linear for a name it does not know.
DynamicActivationWithDefault(activationName) == [a |-> "Linear", err |-> ""]

\* activation.activationMap
activationMap ==
    [name \in {"Linear", "Sigmoid", "ReLU", "Softmax", "SoftmaxWithCCE"} |-> name]

DynamicActivation(activationName) ==
    IF activationName \notin DOMAIN activationMap
    THEN [a |-> "nil", err |-> "unknown activation function"]
    ELSE [a |-> activationMap[activationName], err |-> ""]

\* A loss function value: the generic type and its type argument, whose
\* reflect name is Name[TypeArg].
Loss(name) == [Name |-> name, TypeArg |-> "float64"]

NilLoss == [Name |-> "nil", TypeArg |-> ""]

\* loss.DynamicLoss
DynamicLoss(lossName) ==
    IF lossName \in {"SquareLoss", "LogLoss", "CategoricalCrossEntropyLoss",
                     "CCELossWithSoftmax"}
    THEN [f |-> Loss(lossName), err |-> ""]
    ELSE [f |-> NilLoss, err |-> "unknown activation function"]

\* A dense.MarshalJSON that writes the weights where the bias belongs.
denseMarshalJSONWeightsAsBias(d) ==
    [doc |-> JObject([key \in {"Weights", "Bias", "Activation", "Type"} |->
                         IF key \in {"Weights", "Bias"}
                         THEN matrixMarshalJSON(d.weights).doc
                         ELSE IF key = "Activation" THEN JString(TypeName(d.activation))
                         ELSE JString("Dense")]),
     err |-> ""]

dense_MarshalJSON(d) ==
    LET w == matrixMarshalJSON(d.weights)
        b == matrixMarshalJSON(d.bias)
    IN  IF w.err # "" THEN [doc |-> JNull, err |-> w.err]
        ELSE IF b.err # "" THEN [doc |-> JNull, err |-> b.err]
        ELSE [doc |-> JObject([key \in {"Weights", "Bias", "Activation", "Type"} |->
                                  IF key = "Weights" THEN w.doc
                                  ELSE IF key = "Bias" THEN b.doc
                                  ELSE IF key = "Activation"
                                       THEN JString(TypeName(d.activation))
                                  ELSE JString("Dense")]),
              err |-> ""]

\* dense.UnmarshalJSON on the layer d: the layer afterwards and the error.
dense_UnmarshalJSON(d, data) ==
    IF data.t # "object" THEN [layer |-> d, err |-> "json: cannot unmarshal"]
    ELSE LET w == matrixUnmarshalJSON(Field(data, "Weights"))
             b == matrixUnmarshalJSON(Field(data, "Bias"))
             quoted == Field(data, "Activation")
             \* strconv.Unquote, its error dropped: "" for what is no string
             activationLiteral == IF quoted.t = "string" THEN quoted.v ELSE ""
             found == DynamicActivation(activationLiteral)
         IN  IF w.err # ""
             THEN [layer |-> d, err |-> "invalid weight initializing"]
             ELSE IF b.err # ""
             THEN [layer |-> [d EXCEPT !.weights = w.m],
                   err |-> "invalid bias initializing"]
             ELSE [layer |-> [d EXCEPT !.weights = w.m, !.bias = b.m,
                                       !.activation = found.a],
                   err |-> found.err]

dropout_MarshalJSON(d) ==
    IF ~IsFinite(d.rate) THEN [doc |-> JNull, err |-> "json: unsupported value"]
    ELSE [doc |-> JObject([key \in {"InputSize", "Rate", "Type"} |->
                              IF key = "InputSize" THEN JNumber(F(d.inputSize))
                              ELSE IF key = "Rate" THEN JNumber(d.rate)
                              ELSE JString("Dropout")]),
          err |-> ""]

\* dropout.UnmarshalJSON: a missing field keeps the zero value.
dropout_UnmarshalJSON(d, data) ==
    LET size == Field(data, "InputSize")
        rate == Field(data, "Rate")
    IN  IF data.t # "object"
           \/ size.t \notin {"number", "absent", "null"}
           \/ rate.t \notin {"number", "absent", "null"}
           \/ (size.t = "number" /\ size.v[2] # 1)
        THEN [layer |-> d, err |-> "invalid dropout layer"]
        ELSE [layer |-> [d EXCEPT
                            !.inputSize = IF size.t = "number" THEN size.v[1] ELSE 0,
                            !.rate = IF rate.t = "number" THEN rate.v ELSE F(0)],
              err |-> ""]

layer_MarshalJSON(l) ==
    IF l.Type = "Dense" THEN dense_MarshalJSON(l)
    ELSE IF l.Type = "Dropout" THEN dropout_MarshalJSON(l)
    ELSE [doc |-> JNull, err |-> ""]

\* A network: nn{layers, LossFunction}.
Network(ls, lossFunction) == [layers |-> ls, LossFunction |-> lossFunction]

NilNetwork == Network(<<>>, NilLoss)

\* The first submatch of ^(.+)\[.+\]$ in the reflect name of the loss.
LossName(lossFunction) == lossFunction.Name

\* nn.MarshalJSON
nn_MarshalJSON(n) ==
    LET docs == [k \in 1..Len(n.layers) |-> layer_MarshalJSON(n.layers[k])]
    IN  IF \E k \in 1..Len(docs) : docs[k].err # ""
        THEN [doc |-> JNull, err |-> "json: error calling MarshalJSON"]
        ELSE [doc |-> JObject([key \in {"Layers", "LossFunction"} |->
                                  IF key = "Layers"
                                  THEN JArray([k \in 1..Len(docs) |-> docs[k].doc])
                                  ELSE JString(LossName(n.LossFunction))]),
              err |-> ""]

\* The body of the loop of nn.UnmarshalJSON for one element of Layers: the
\* layer it stores and the error of the layer's UnmarshalJSON.
UnmarshalLayer(lData) ==
    LET layerType == IF lData.t = "object" /\ Field(lData, "Type").t = "string"
                     THEN Field(lData, "Type").v ELSE ""
    IN  IF layerType = "Dense"
        THEN dense_UnmarshalJSON(NewDense(<< <<>> >>, << <<>> >>, "Linear").layer, lData)
        ELSE IF layerType = "Dropout"
        THEN dropout_UnmarshalJSON(NewDropout(0, F(0)), lData)
        ELSE [layer |-> NilLayer, err |-> ""]

\* nn.UnmarshalJSON: the network afterwards and the error.  On an error the
\* receiver is left partly written and LoadNeuralNetwork drops it: the model
\* gives the nil network.
nn_UnmarshalJSON(data) ==
    IF data.t # "object"
       \/ Field(data, "Layers").t \notin {"array", "absent", "null"}
       \/ Field(data, "LossFunction").t \notin {"string", "absent", "null"}
    THEN [nn |-> NilNetwork, err |-> "invalid general NN unmarshalling"]
    ELSE LET elements == IF Field(data, "Layers").t = "array"
                         THEN Field(data, "Layers").v ELSE <<>>
             parsed == [k \in 1..Len(elements) |-> UnmarshalLayer(elements[k])]
             lossFunction == IF Field(data, "LossFunction").t = "string"
                             THEN Field(data, "LossFunction").v ELSE ""
             found == DynamicLoss(lossFunction)
         IN  IF \E k \in 1..Len(parsed) : parsed[k].err # ""
             THEN [nn |-> NilNetwork, err |-> "error on parsing layer"]
             ELSE IF found.err # ""
             THEN [nn |-> NilNetwork, err |-> "invalid loss name"]
             ELSE [nn |-> Network([k \in 1..Len(parsed) |-> parsed[k].layer], found.f),
                   err |-> ""]

\* nn.LoadNeuralNetwork, from the content of the file.
LoadNeuralNetwork(fileContent) ==
    LET r == nn_UnmarshalJSON(fileContent)
    IN  IF r.err # "" THEN [nn |-> NilNetwork, err |-> r.err] ELSE r

\* nn.NewNeuralNetwork
NewNeuralNetwork(ls, lossFunction) == Network(ls, lossFunction)

(***************************************************************************)
(* Bounds of the model.                                                    *)
(***************************************************************************)
\* The largest EpochCount a caller passes; 0 stands for "not set".
MaxEpochCount == 2

\* The largest number of batches passed to Train.
MaxBatches == 2

\* The largest number of samples (columns) of a batch.
MaxSamples == 2

\* The largest number of batches a run with a set epoch count processes.
MaxPasses == 4

\* The same for a network of more than one layer.
MaxDeepPasses == 1

\* The largest number of layers of a network put together from constructors.
MaxLayers == 2

\* The largest row or column count of an operand of a matrix operation.
MaxDim == 2

(***************************************************************************)
(* The networks, training sets and parameters the model is run on.         *)
(***************************************************************************)
\* The matrix with the given rows of integers.
FromInts(rows) == [r \in 1..Len(rows) |-> [c \in 1..Len(rows[r]) |-> F(rows[r][c])]]

Networks ==
    { \* 1 -> 1
      << Dense(FromInts(<< <<1>> >>), FromInts(<< <<0>> >>), "Linear") >>,
      \* 1 -> 2 -> 1
      << Dense(FromInts(<< <<1>>, <<-1>> >>), FromInts(<< <<0>>, <<0>> >>), "ReLU"),
         Dense(FromInts(<< <<1, 1>> >>), FromInts(<< <<0>> >>), "Linear") >>,
      \* 1 -> 1 -> (dropout) -> 1
      << Dense(FromInts(<< <<1>> >>), FromInts(<< <<0>> >>), "Linear"),
         NewDropout(1, Frac(1, 2)),
         Dense(FromInts(<< <<1>> >>), FromInts(<< <<0>> >>), "Linear") >>,
      \* 2 -> 2
      << Dense(FromInts(<< <<1, 0>>, <<0, 1>> >>), FromInts(<< <<0>>, <<0>> >>),
               "Linear") >> }

HasDropout(ls) == \E k \in 1..Len(ls) : ls[k].Type = "Dropout"

\* An input batch: 1 and 0 alternating.
XBatch(rows, columns) ==
    LET Elem(r, c) == F((r + c + 1) % 2) IN Build(rows, columns, Elem)

\* A label batch: the input pattern plus v.
YBatch(rows, columns, v) ==
    LET Elem(r, c) == F(((r + c + 1) % 2) + v) IN Build(rows, columns, Elem)

Labels == {0, 1, 2}

\* What can be wrong with one batch of a training set.
Defects == {"X rows", "Y rows", "columns", "empty", "infinite"}

\* The training set of nb batches of the given number of columns, labelled
\* by v, whose batch p (from 1; 0 for none) has the defect.
TrainingSet(ls, nb, columns, v, p, defect) ==
    LET in == NetInputSize(ls)[1]
        out == NetOutputSize(ls)[1]
        Is(k, d) == k = p /\ defect = d
        xc(k) == IF Is(k, "empty") THEN 0 ELSE columns
        yc(k) == IF Is(k, "columns") THEN columns + 1 ELSE xc(k)
    IN  [X |-> [k \in 1..nb |->
                   XBatch(IF Is(k, "X rows") THEN in + 1 ELSE in, xc(k))],
         Y |-> [k \in 1..nb |->
                   LET labels == YBatch(IF Is(k, "Y rows") THEN out + 1 ELSE out,
                                        yc(k), v)
                   IN  IF Is(k, "infinite") THEN Set(labels, 0, 0, PosInf)
                       ELSE labels]]

\* The optional hyper-parameters; a run sets at most one of them.
Options == {"LearningRateDecay", "WeightDecay", "ClipValue", "Backups"}

Parameters(epochCount, rate, options) ==
    [currentEpoch |-> 0,
     EpochCount |-> epochCount,
     LearningRateDecay |-> IF "LearningRateDecay" \in options THEN F(1) ELSE F(0),
     InitialLearningRate |-> rate,
     WeightDecay |-> IF "WeightDecay" \in options THEN F(1) ELSE F(0),
     ClipValue |-> IF "ClipValue" \in options THEN F(1) ELSE F(0),
     AccuracyMetric |-> [Epsilon |-> Frac(1, 2)],
     Backups |-> [ToCreate |-> "Backups" \in options]]

\* The matrices Predict is called with: one sample, a full batch, and one
\* of a wrong row count.
PredictInputs(ls) ==
    LET in == NetInputSize(ls)[1]
    IN  {XBatch(in, 1), XBatch(in, MaxSamples), XBatch(in + 1, 1)}

(***************************************************************************)
(* State                                                                   *)
(***************************************************************************)
VARIABLES
    layers,           \* nn.layers
    X, Y,             \* the batches passed to Train
    callerParameters, \* the parameters of the caller, passed to Train by value
    parameters,       \* Train's copy of the parameters
    pc,               \* where the program is: "idle", inside Train, "returned", "panic"
    err,              \* the error Train returned, "" for nil
    e, i,             \* Train's loop counters
    cost, accuracy,   \* Train's accumulators of the epoch
    inputCache,       \* what ForwardPropagate returned for the batch
    j,                \* BackPropagate's loop counter
    backPropagation,  \* BackPropagate's running gradient
    result,           \* what the last Layer.BackPropagate returned
    dumps,            \* the checkpoints handed to DumpNeuralNetwork
    predictX,         \* the argument of the last Predict since Train, nil for none
    predictY,         \* what that Predict returned
    trace,            \* history: the steps Train has taken
    initialLayers,    \* history: the layers as constructed
    batchLayers,      \* history: the layers when the batch's forward pass ran
    \* building, saving and loading a network
    built,            \* what the last layer constructor returned, and its arguments
    pending,          \* the layer slice the caller is putting together
    net,              \* the network NewNeuralNetwork returned
    doc,              \* the content of the checkpoint file
    loaded,           \* what LoadNeuralNetwork returned
    \* one call of an operation of package matrix
    operation,        \* the operation called, "" for none
    m1, m2,           \* the receiver and the argument matrix
    args,             \* the other arguments
    m3,               \* the result matrix the column tasks write to
    tasks,            \* the column tasks: the row each is at, and whether it is done
    wg,               \* the counter of the sync.WaitGroup
    ret,              \* what the operation returned
    written,          \* history: the cells of the result each task has set
    \* one call of Accuracy.Calculate
    yTrue, yHat,      \* its arguments
    correct,          \* the shared counter
    mutex             \* the task that holds the sync.Mutex, -1 for none

trainVars == <<layers, X, Y, callerParameters, parameters, pc, err, e, i, cost, accuracy,
               inputCache, j, backPropagation, result, dumps, predictX, predictY, trace,
               initialLayers, batchLayers>>

checkpointVars == <<built, pending, net, doc, loaded>>

matrixVars == <<operation, m1, m2, args, m3, tasks, wg, ret, written>>

accuracyVars == <<yTrue, yHat, correct, mutex>>

libraryVars == <<checkpointVars, matrixVars, accuracyVars>>

vars == <<trainVars, libraryVars>>

Event(op, epoch, batch, layer) == [op |-> op, e |-> epoch, i |-> batch, j |-> layer]

\* The number of batches a run processes if nothing stops it.
Passes(epochCount, nb) ==
    (IF epochCount = 0 THEN defaultEpochCount ELSE epochCount) * nb

(***************************************************************************)
(* The values of the variables of a part of the library that is not in     *)
(* use.                                                                    *)
(***************************************************************************)
NoLayerBuilt ==
    [by |-> "", layer |-> NilLayer, err |-> "",
     W |-> NilMatrix, b |-> NilMatrix, a |-> "nil"]

NotLoaded == [done |-> FALSE, nn |-> NilNetwork, err |-> ""]

NotReturned == [done |-> FALSE, m |-> NilMatrix, err |-> ""]

NoTask == -1

CheckpointIdle ==
    /\ built = NoLayerBuilt
    /\ pending = <<>>
    /\ net = NilNetwork
    /\ doc = JAbsent
    /\ loaded = NotLoaded

MatrixIdle ==
    /\ operation = ""
    /\ m1 = NilMatrix
    /\ m2 = NilMatrix
    /\ args = <<>>
    /\ m3 = NilMatrix
    /\ tasks = <<>>
    /\ wg = 0
    /\ ret = NotReturned
    /\ written = {}

AccuracyIdle ==
    /\ yTrue = NilMatrix
    /\ yHat = NilMatrix
    /\ correct = 0
    /\ mutex = NoTask

\* No network is being trained.
TrainIdle ==
    /\ layers = <<>>
    /\ X = <<>>
    /\ Y = <<>>
    /\ callerParameters = Parameters(0, F(0), {})
    /\ parameters = callerParameters
    /\ pc = "off"
    /\ err = ""
    /\ e = 0
    /\ i = 0
    /\ cost = F(0)
    /\ accuracy = F(0)
    /\ inputCache = <<>>
    /\ j = 0
    /\ backPropagation = NilMatrix
    /\ result = NilMatrix
    /\ dumps = <<>>
    /\ predictX = NilMatrix
    /\ predictY = NilMatrix
    /\ trace = <<>>
    /\ initialLayers = <<>>
    /\ batchLayers = <<>>

Init ==
    /\ \E ls \in Networks, nb \in 1..MaxBatches, columns \in 1..MaxSamples,
          v \in Labels, p \in 0..MaxBatches, defect \in Defects,
          epochCount \in 0..MaxEpochCount, rate \in {F(0), F(1), Frac(1, 2)},
          options \in {{}} \cup {{o} : o \in Options} :
          /\ p <= nb
          /\ p = 0 => defect = "empty"
          /\ p # 0 => options = {}
          /\ HasDropout(ls) => columns = 1
          \* the default epoch count, for one layer, one sample, and whole numbers
          /\ epochCount = 0 =>
                 /\ Len(ls) = 1 /\ nb = 1 /\ columns = 1
                 /\ rate = F(1) /\ options \subseteq {"Backups"}
          /\ epochCount # 0 =>
                 Passes(epochCount, nb) <= IF Len(ls) > 1 THEN MaxDeepPasses
                                                          ELSE MaxPasses
          \* several layers and several samples, for a single batch
          /\ Len(ls) > 1 /\ columns > 1 => Passes(epochCount, nb) = 1
          \* the default learning rate, for a single batch
          /\ rate = F(0) => Passes(epochCount, nb) = 1
          /\ layers = ls
          /\ X = TrainingSet(ls, nb, columns, v, p, defect).X
          /\ Y = TrainingSet(ls, nb, columns, v, p, defect).Y
          /\ callerParameters = Parameters(epochCount, rate, options)
    /\ parameters = callerParameters
    /\ pc = "idle"
    /\ err = ""
    /\ e = 0
    /\ i = 0
    /\ cost = F(0)
    /\ accuracy = F(0)
    /\ inputCache = <<>>
    /\ j = 0
    /\ backPropagation = NilMatrix
    /\ result = NilMatrix
    /\ dumps = <<>>
    /\ predictX = NilMatrix
    /\ predictY = NilMatrix
    /\ trace = <<>>
    /\ initialLayers = layers
    /\ batchLayers = layers
    /\ CheckpointIdle
    /\ MatrixIdle
    /\ AccuracyIdle

(***************************************************************************)
(* nn.Predict                                                              *)
(***************************************************************************)
PredictCall ==
    /\ pc \in {"idle", "returned"}
    /\ \E Xin \in PredictInputs(layers) :
       \E Yout \in Predict(layers, Xin) :
          /\ predictX' = Xin
          /\ predictY' = Yout
          /\ pc' = IF Yout = PanicMatrix THEN "panic" ELSE pc
    /\ UNCHANGED <<layers, X, Y, callerParameters, parameters, err, e, i, cost,
                   accuracy, inputCache, j, backPropagation, result, dumps, trace, initialLayers,
                   batchLayers>>
    /\ UNCHANGED libraryVars

(***************************************************************************)
(* nn.Train, one action per stretch of its body.                           *)
(***************************************************************************)
\* The call: validateTrainSamples, Validate, ResetEpoch.
Train ==
    /\ pc = "idle"
    /\ LET errorText == validateTrainSamples(layers, X, Y)
       IN  IF errorText # ""
           THEN /\ err' = errorText
                /\ pc' = "returned"
                /\ UNCHANGED parameters
           ELSE /\ parameters' = ResetEpoch(Validate(callerParameters))
                /\ pc' = "epoch"
                /\ UNCHANGED err
    /\ e' = 0
    /\ predictX' = NilMatrix
    /\ predictY' = NilMatrix
    /\ UNCHANGED <<layers, X, Y, callerParameters, i, cost, accuracy, inputCache, j, backPropagation,
                   result, dumps, trace, initialLayers, batchLayers>>
    /\ UNCHANGED libraryVars

\* The head of the epoch loop, and the return after the last epoch.
TrainEpoch ==
    /\ pc = "epoch"
    /\ IF e < parameters.EpochCount
       THEN /\ cost' = F(0)
            /\ accuracy' = F(0)
            /\ i' = 0
            /\ pc' = "batch"
            /\ UNCHANGED parameters
       ELSE /\ parameters' = ResetEpoch(parameters)
            /\ pc' = "returned"
            /\ UNCHANGED <<cost, accuracy, i>>
    /\ UNCHANGED <<layers, X, Y, callerParameters, err, e, inputCache, j, backPropagation, result,
                   dumps, predictX, predictY, trace, initialLayers, batchLayers>>
    /\ UNCHANGED libraryVars

\* inputCache := n.ForwardPropagate(X_batch)
TrainForwardPropagate ==
    /\ pc = "batch"
    /\ i < Len(X)
    /\ \E cache \in ForwardPropagate(layers, X[i + 1]) :
          /\ inputCache' = cache
          /\ pc' = IF \E k \in 0..Len(layers) : cache[k][2] = PanicMatrix
                   THEN "panic" ELSE "cost"
    /\ trace' = Append(trace, Event("ForwardPropagate", e, i, -1))
    /\ batchLayers' = layers
    /\ UNCHANGED <<layers, X, Y, callerParameters, parameters, err, e, i, cost, accuracy, j,
                   backPropagation, result, dumps, predictX, predictY, initialLayers>>
    /\ UNCHANGED libraryVars

\* The cost and accuracy of the batch, the divergence check, and the head
\* of n.BackPropagate: the derivative of the loss at the prediction.
TrainComputeCost ==
    /\ pc = "cost"
    /\ LET prediction == inputCache[Len(layers)][2]
           newCost == FAdd(cost, FDiv(ComputeCost(prediction, Y[i + 1]), F(Len(X))))
       IN  IF Panics(prediction)
           THEN /\ pc' = "panic"
                /\ UNCHANGED <<cost, err, accuracy, backPropagation, j>>
           ELSE /\ cost' = newCost
                /\ IF CostIsInvalid(newCost)
                   THEN /\ err' = "cost is an invalid number"
                        /\ pc' = "returned"
                        /\ UNCHANGED <<accuracy, backPropagation, j>>
                   ELSE /\ accuracy' =
                               FAdd(accuracy,
                                    FDiv(AccuracyCalculate(parameters.AccuracyMetric,
                                                           Y[i + 1], prediction),
                                         F(Len(X))))
                        /\ backPropagation' =
                               LossApplyDerivativeMatrix(Y[i + 1], prediction)
                        /\ j' = Len(layers) - 1
                        /\ pc' = "backward"
                        /\ UNCHANGED err
    /\ trace' = Append(trace, Event("ComputeCost", e, i, -1))
    /\ UNCHANGED <<layers, X, Y, callerParameters, parameters, e, i, inputCache, result, dumps,
                   predictX, predictY, initialLayers, batchLayers>>
    /\ UNCHANGED libraryVars

\* One turn of the loop of n.BackPropagate: layer j back-propagates (a Dense
\* layer updates its weights), and what it returns is clipped.  After layer
\* 0 BackPropagate returns and Train moves to the next batch.
TrainBackPropagate ==
    /\ pc = "backward"
    /\ LET r == layerBackPropagate(layers[j + 1], backPropagation, inputCache[j][2],
                                   inputCache[j + 1], parameters)
       IN  /\ layers' = [layers EXCEPT ![j + 1] = r.layer]
           /\ result' = r.result
           /\ backPropagation' =
                  Clip(r.result, FNeg(parameters.ClipValue), parameters.ClipValue)
           /\ pc' = IF Panics(r.result) THEN "panic"
                    ELSE IF j = 0 THEN "batch" ELSE "backward"
    /\ j' = j - 1
    /\ i' = IF j = 0 THEN i + 1 ELSE i
    /\ trace' = Append(trace, Event("BackPropagate", e, i, j))
    /\ UNCHANGED <<X, Y, callerParameters, parameters, err, e, cost, accuracy, inputCache, dumps,
                   predictX, predictY, initialLayers, batchLayers>>
    /\ UNCHANGED libraryVars

\* The end of an epoch: the summary is logged, the epoch counter is
\* incremented and the network is dumped if backups are asked for.
TrainEpochEnd ==
    /\ pc = "batch"
    /\ i >= Len(X)
    /\ parameters' = IncrementEpoch(parameters)
    /\ dumps' = IF parameters.Backups.ToCreate
                THEN Append(dumps, [epoch |-> e + 1, layers |-> layers])
                ELSE dumps
    /\ e' = e + 1
    /\ pc' = "epoch"
    /\ trace' = Append(trace, Event("IncrementEpoch", e, -1, -1))
    /\ UNCHANGED <<layers, X, Y, callerParameters, err, i, cost, accuracy, inputCache, j,
                   backPropagation, result, predictX, predictY, initialLayers,
                   batchLayers>>
    /\ UNCHANGED libraryVars

Next ==
    \/ PredictCall
    \/ Train
    \/ TrainEpoch
    \/ TrainForwardPropagate
    \/ TrainComputeCost
    \/ TrainBackPropagate
    \/ TrainEpochEnd

Spec == Init /\ [][Next]_vars

\* Where the program is while Train runs.
TrainPcs == {"epoch", "batch", "cost", "backward"}

\* The steps of Train on a batch.
TrainBatchStep ==
    \/ TrainForwardPropagate
    \/ TrainComputeCost
    \/ TrainBackPropagate

\* A batch step can be taken.
TrainBatchStepEnabled == (pc = "batch" /\ i < Len(X)) \/ pc \in {"cost", "backward"}

\* Train runs in the goroutine of its caller and keeps going until it
\* returns: weak fairness of each of its steps.  For the batch steps it is
\* written out, with the condition under which one can be taken.
Fairness ==
    /\ WF_vars(TrainEpoch)
    /\ WF_vars(TrainEpochEnd)
    /\ ([]<>(~TrainBatchStepEnabled) \/ []<><<TrainBatchStep>>_vars)

FairSpec == Spec /\ Fairness

(***************************************************************************)
(* Building a network from the constructors, saving it and loading it.     *)
(* The caller builds layers one by one, appends those it got to a slice,   *)
(* makes the network of the slice, dumps it, and loads the file, as it was *)
(* dumped or after it was edited by hand.                                  *)
(***************************************************************************)
\* The sizes of the weight and bias matrices passed to NewDense.
Shapes == {<<1, 1>>, <<2, 1>>, <<1, 2>>}

\* The matrix of the given size with the elements first, first + 1, ...
Numbered(rows, columns, first) ==
    LET Elem(r, c) == F(first + r * columns + c) IN Build(rows, columns, Elem)

WeightMatrices == {Numbered(s[1], s[2], 1) : s \in Shapes}

BiasMatrices == {Numbered(s[1], s[2], -3) : s \in Shapes}

\* The activations the caller gives to NewDense; SELU is none of the registry.
Activations == {"ReLU", "SELU"}

Losses == {Loss("SquareLoss"), Loss("LogLoss")}

NewDenseCall ==
    /\ net = NilNetwork
    /\ built.layer = NilLayer
    /\ Len(pending) < MaxLayers
    /\ \E W \in WeightMatrices, b \in BiasMatrices, a \in Activations :
          LET r == NewDense(W, b, a)
          IN  built' = [by |-> "NewDense", layer |-> r.layer, err |-> r.err,
                        W |-> W, b |-> b, a |-> a]
    /\ UNCHANGED <<pending, net, doc, loaded>>
    /\ UNCHANGED <<trainVars, matrixVars, accuracyVars>>

NewRandomDenseCall ==
    /\ net = NilNetwork
    /\ built.layer = NilLayer
    /\ Len(pending) < MaxLayers
    /\ \E s \in Shapes :
          \* every weight initialization gives ones here
          LET l == NewRandomDense(<<s[2], s[1]>>, "Linear", NewOnesMatrix(s[1], s[2]))
          IN  built' = [by |-> "NewRandomDense", layer |-> l, err |-> "",
                        W |-> NilMatrix, b |-> NilMatrix, a |-> "Linear"]
    /\ UNCHANGED <<pending, net, doc, loaded>>
    /\ UNCHANGED <<trainVars, matrixVars, accuracyVars>>

NewDropoutCall ==
    /\ net = NilNetwork
    /\ built.layer = NilLayer
    /\ Len(pending) < MaxLayers
    /\ \E n \in {1, 2} :
          built' = [by |-> "NewDropout", layer |-> NewDropout(n, Frac(1, 2)), err |-> "",
                    W |-> NilMatrix, b |-> NilMatrix, a |-> "nil"]
    /\ UNCHANGED <<pending, net, doc, loaded>>
    /\ UNCHANGED <<trainVars, matrixVars, accuracyVars>>

\* layers = append(layers, l), for a layer the constructor returned.
AppendLayer ==
    /\ net = NilNetwork
    /\ built.layer # NilLayer
    /\ Len(pending) < MaxLayers
    /\ pending' = Append(pending, built.layer)
    /\ built' = NoLayerBuilt
    /\ UNCHANGED <<net, doc, loaded>>
    /\ UNCHANGED <<trainVars, matrixVars, accuracyVars>>

NewNeuralNetworkCall ==
    /\ net = NilNetwork
    /\ built = NoLayerBuilt
    /\ Len(pending) > 0
    /\ \E lossFunction \in Losses : net' = NewNeuralNetwork(pending, lossFunction)
    /\ pending' = <<>>
    /\ UNCHANGED <<built, doc, loaded>>
    /\ UNCHANGED <<trainVars, matrixVars, accuracyVars>>

\* DumpNeuralNetwork: the file gets the JSON of the network.
DumpCall ==
    /\ net # NilNetwork
    /\ doc = JAbsent
    /\ nn_MarshalJSON(net).err = ""
    /\ doc' = nn_MarshalJSON(net).doc
    /\ UNCHANGED <<built, pending, net, loaded>>
    /\ UNCHANGED <<trainVars, matrixVars, accuracyVars>>

\* The object o with the key set to the value, or removed for JAbsent.
WithField(o, key, value) ==
    IF value.t = "absent"
    THEN JObject([k \in DOMAIN o.v \ {key} |-> o.v[k]])
    ELSE JObject([k \in DOMAIN o.v \cup {key} |-> IF k = key THEN value ELSE o.v[k]])

\* The checkpoint with the Activation of its first layer set to the value.
\* The file with the "Type" of its first layer replaced.
WithLayerType(d, value) ==
    LET ls == Field(d, "Layers").v
    IN  WithField(d, "Layers", JArray([ls EXCEPT ![1] = WithField(ls[1], "Type", value)]))

WithActivation(d, value) ==
    LET ls == Field(d, "Layers").v
    IN  WithField(d, "Layers",
                  JArray([ls EXCEPT ![1] = WithField(ls[1], "Activation", value)]))

\* The file is edited by hand: an activation or the loss is renamed to one
\* the library does not have, or removed.
EditCall ==
    /\ doc # JAbsent
    /\ doc = nn_MarshalJSON(net).doc
    /\ ~loaded.done
    /\ \E value \in {JString("Tanh"), JAbsent, JNull} :
          \/ /\ net.layers[1].Type = "Dense"
             /\ doc' = WithActivation(doc, value)
          \/ doc' = WithField(doc, "LossFunction",
                              IF value.t = "string" THEN JString("HingeLoss") ELSE value)
          \/ doc' = WithLayerType(doc, IF value.t = "string" THEN JString("Conv")
                                                               ELSE value)
    /\ UNCHANGED <<built, pending, net, loaded>>
    /\ UNCHANGED <<trainVars, matrixVars, accuracyVars>>

LoadCall ==
    /\ doc # JAbsent
    /\ ~loaded.done
    /\ LET r == LoadNeuralNetwork(doc)
       IN  loaded' = [done |-> TRUE, nn |-> r.nn, err |-> r.err]
    /\ UNCHANGED <<built, pending, net, doc>>
    /\ UNCHANGED <<trainVars, matrixVars, accuracyVars>>

CheckpointInit == TrainIdle /\ CheckpointIdle /\ MatrixIdle /\ AccuracyIdle

CheckpointNext ==
    \/ NewDenseCall
    \/ NewRandomDenseCall
    \/ NewDropoutCall
    \/ AppendLayer
    \/ NewNeuralNetworkCall
    \/ DumpCall
    \/ EditCall
    \/ LoadCall

CheckpointSpec == CheckpointInit /\ [][CheckpointNext]_vars

(***************************************************************************)
(* The matrix operations.  A column-indexed operation makes its result     *)
(* matrix m3, adds its column count to the WaitGroup wg and starts one     *)
(* goroutine per column; the goroutine of column j runs the loop on the    *)
(* rows i, one iteration per step, then its deferred wg.Done(); the caller *)
(* returns m3 once wg.Wait() has passed.  tasks[j + 1] is the position of  *)
(* the goroutine of column j, and written records each call of Set on the  *)
(* result as the goroutine, the row and the column.                        *)
(***************************************************************************)
ColumnOperations ==
    {"Add", "Multiply", "MultiplyByScalar", "MultiplyElementwise", "T",
     "DeepCopy", "Clip"}

\* The matrices the operations are called with.
MatrixOperands ==
    {Numbered(r, c, first) : r \in 1..MaxDim, c \in 1..MaxDim, first \in {1, -2}}

Scalars == {F(2), F(-1)}

ClipBounds == {<<F(0), F(2)>>, <<F(-1), F(1)>>}

BroadcastSizes == (-1)..(2 * MaxDim)

\* One goroutine per column, each before the first iteration of its loop.
StartTasks(n) == [t \in 1..n |-> [i |-> 0, done |-> FALSE]]

\* The call returns (nil, error) before any goroutine is started.
ReturnError(name, a, b, message) ==
    /\ operation' = name
    /\ m1' = a
    /\ m2' = b
    /\ ret' = [done |-> TRUE, m |-> NilMatrix, err |-> message]
    /\ UNCHANGED <<args, m3, tasks, wg, written>>

\* The call has made the result matrix and started the goroutines.
StartOperation(name, a, b, arguments, made, columnCount) ==
    /\ operation' = name
    /\ m1' = a
    /\ m2' = b
    /\ args' = arguments
    /\ m3' = made
    /\ wg' = columnCount
    /\ tasks' = StartTasks(columnCount)
    /\ UNCHANGED <<ret, written>>

AddCall ==
    /\ operation = ""
    /\ \E a \in MatrixOperands, b \in MatrixOperands :
           IF ~AreSameSize(a, b)
           THEN ReturnError("Add", a, b, "matrices are not the same size")
           ELSE StartOperation("Add", a, b, <<>>,
                               NewZeroMatrix(RowCount(a), ColumnCount(a)),
                               ColumnCount(a))
    /\ UNCHANGED <<trainVars, checkpointVars, accuracyVars>>

MultiplyCall ==
    /\ operation = ""
    /\ \E a \in MatrixOperands, b \in MatrixOperands :
           IF ColumnCount(a) # Size(b)[1]
           THEN ReturnError("Multiply", a, b,
                            "matrices are not conformable under multiplication")
           ELSE StartOperation("Multiply", a, b, <<>>,
                               NewZeroMatrix(RowCount(a), Size(b)[2]),
                               Size(b)[2])
    /\ UNCHANGED <<trainVars, checkpointVars, accuracyVars>>

MultiplyByScalarCall ==
    /\ operation = ""
    /\ \E a \in MatrixOperands, k \in Scalars :
           StartOperation("MultiplyByScalar", a, NilMatrix, <<k>>,
                          NewZeroMatrix(RowCount(a), ColumnCount(a)),
                          ColumnCount(a))
    /\ UNCHANGED <<trainVars, checkpointVars, accuracyVars>>

MultiplyElementwiseCall ==
    /\ operation = ""
    /\ \E a \in MatrixOperands, b \in MatrixOperands :
           IF ~AreSameSize(a, b)
           THEN ReturnError("MultiplyElementwise", a, b,
                            "matrices are not the same size")
           ELSE StartOperation("MultiplyElementwise", a, b, <<>>,
                               NewZeroMatrix(RowCount(a), ColumnCount(a)),
                               ColumnCount(a))
    /\ UNCHANGED <<trainVars, checkpointVars, accuracyVars>>

TCall ==
    /\ operation = ""
    /\ \E a \in MatrixOperands :
           StartOperation("T", a, NilMatrix, <<>>,
                          NewZeroMatrix(ColumnCount(a), RowCount(a)),
                          ColumnCount(a))
    /\ UNCHANGED <<trainVars, checkpointVars, accuracyVars>>

DeepCopyCall ==
    /\ operation = ""
    /\ \E a \in MatrixOperands :
           StartOperation("DeepCopy", a, NilMatrix, <<>>,
                          NewZeroMatrix(RowCount(a), ColumnCount(a)),
                          ColumnCount(a))
    /\ UNCHANGED <<trainVars, checkpointVars, accuracyVars>>

\* Clip works on a deep copy of M, made before its goroutines are started.
ClipCall ==
    /\ operation = ""
    /\ \E a \in MatrixOperands, bounds \in ClipBounds :
           StartOperation("Clip", a, NilMatrix, bounds, DeepCopy(a),
                          ColumnCount(a))
    /\ UNCHANGED <<trainVars, checkpointVars, accuracyVars>>

\* Broadcast is sequential and in place: m1 is the matrix before the call and
\* m3 is the same matrix after it.
BroadcastCall ==
    /\ operation = ""
    /\ \E a \in MatrixOperands, newRows \in BroadcastSizes,
          newColumns \in BroadcastSizes :
           LET outcome == Broadcast(a, newRows, newColumns)
           IN  /\ operation' = "Broadcast"
               /\ m1' = a
               /\ args' = <<newRows, newColumns>>
               /\ m3' = outcome.m
               /\ ret' = [done |-> TRUE, m |-> NilMatrix, err |-> outcome.err]
    /\ UNCHANGED <<m2, tasks, wg, written>>
    /\ UNCHANGED <<trainVars, checkpointVars, accuracyVars>>

\* The bound of the loop on the rows in the goroutines of the operation.
LoopRowCount == IF operation = "T" THEN RowCount(m1) ELSE RowCount(m3)

\* The row and the column of the result that the iteration of a row in the
\* goroutine of a column sets.
Destination(row, column) ==
    IF operation = "T" THEN <<column, row>> ELSE <<row, column>>

\* The value that the iteration of a row in the goroutine of a column sets.
ItemValue(row, column) ==
    CASE operation = "Add" -> FAdd(At(m1, row, column), At(m2, row, column))
      [] operation = "Multiply" ->
             SumSeq([k \in 1..ColumnCount(m1) |->
                        FMul(At(m1, row, k - 1), At(m2, k - 1, column))])
      [] operation = "MultiplyByScalar" -> FMul(At(m1, row, column), args[1])
      [] operation = "MultiplyElementwise" -> FMul(At(m1, row, column), At(m2, row, column))
      [] operation = "Clip" ->
             LET v == At(m3, row, column)
             IN  IF FLt(v, args[1]) THEN args[1]
                 ELSE IF FGt(v, args[2]) THEN args[2]
                 ELSE v
      [] OTHER -> At(m1, row, column)

\* One iteration of the loop on the rows in one goroutine.
ColumnTaskStep ==
    /\ operation \in ColumnOperations
    /\ \E t \in 1..Len(tasks) :
           LET row == tasks[t].i
               column == t - 1
               cell == Destination(row, column)
           IN  /\ ~tasks[t].done
               /\ row < LoopRowCount
               /\ m3' = Set(m3, cell[1], cell[2], ItemValue(row, column))
               /\ written' = written \cup
                      {[task |-> column, row |-> cell[1], column |-> cell[2]]}
               /\ tasks' = [tasks EXCEPT ![t].i = row + 1]
    /\ UNCHANGED <<operation, m1, m2, args, wg, ret>>
    /\ UNCHANGED <<trainVars, checkpointVars, accuracyVars>>

\* The loop of a goroutine is over: its deferred wg.Done() runs.
ColumnTaskDone ==
    /\ operation \in ColumnOperations
    /\ \E t \in 1..Len(tasks) :
           /\ ~tasks[t].done
           /\ tasks[t].i >= LoopRowCount
           /\ tasks' = [tasks EXCEPT ![t].done = TRUE]
           /\ wg' = wg - 1
    /\ UNCHANGED <<operation, m1, m2, args, m3, ret, written>>
    /\ UNCHANGED <<trainVars, checkpointVars, accuracyVars>>

\* wg.Wait() always passes.
WaitSkipped == TRUE

\* wg.Wait() passes when the counter of the WaitGroup is zero.
WaitPassed == wg = 0

\* The caller returns the result matrix.
MatrixReturn ==
    /\ operation \in ColumnOperations
    /\ ~ret.done
    /\ WaitPassed
    /\ ret' = [done |-> TRUE, m |-> m3, err |-> ""]
    /\ UNCHANGED <<operation, m1, m2, args, m3, tasks, wg, written>>
    /\ UNCHANGED <<trainVars, checkpointVars, accuracyVars>>

MatrixInit == TrainIdle /\ CheckpointIdle /\ MatrixIdle /\ AccuracyIdle

MatrixNext ==
    \/ AddCall
    \/ MultiplyCall
    \/ MultiplyByScalarCall
    \/ MultiplyElementwiseCall
    \/ TCall
    \/ DeepCopyCall
    \/ ClipCall
    \/ BroadcastCall
    \/ ColumnTaskStep
    \/ ColumnTaskDone
    \/ MatrixReturn

MatrixSpec == MatrixInit /\ [][MatrixNext]_vars

(***************************************************************************)
(* metric.Accuracy.Calculate.  One goroutine per column of yTrue compares  *)
(* the rows of its column, one row per step, and returns at the first row  *)
(* out of the tolerance; otherwise it locks the mutex, does correct++ (a   *)
(* read of the counter, then a write) and unlocks.  Its deferred wg.Done() *)
(* runs when it returns.  The caller divides the counter by the column     *)
(* count once wg.Wait() has passed.  mutex is the column of the goroutine  *)
(* that holds the mutex, NoTask when it is unlocked; ret.m is the float    *)
(* returned; written records each write of the counter.                    *)
(***************************************************************************)
\* The labels: zeros.
LabelMatrices == {NewZeroMatrix(r, c) : r \in 1..MaxDim, c \in 1..MaxDim}

\* A matrix of the size of m whose elements are in {0, 1}; bits[k] says
\* whether element k (row-major) is 1.
FromBits(m, bits) ==
    [r \in 1..RowCount(m) |->
        [c \in 1..ColumnCount(m) |->
            IF bits[(r - 1) * ColumnCount(m) + c] THEN F(1) ELSE F(0)]]

Epsilons == {F(0), F(1)}

\* The tolerance of the call: DefaultEpsilon when Epsilon is zero.
Precision == IF args[1] = F(0) THEN DefaultEpsilon ELSE args[1]

AccuracyCall ==
    /\ operation = ""
    /\ \E labels \in LabelMatrices, epsilon \in Epsilons :
         \E bits \in [1..(RowCount(labels) * ColumnCount(labels)) -> BOOLEAN] :
           /\ yTrue' = labels
           /\ yHat' = FromBits(labels, bits)
           /\ args' = <<epsilon>>
           /\ wg' = ColumnCount(labels)
           /\ tasks' = [t \in 1..ColumnCount(labels) |->
                           [pc |-> "rows", i |-> 0, local |-> 0, increments |-> 0]]
    /\ operation' = "Calculate"
    /\ correct' = 0
    /\ mutex' = NoTask
    /\ UNCHANGED <<m1, m2, m3, ret, written>>
    /\ UNCHANGED <<trainVars, checkpointVars>>

\* One iteration of the loop on the rows: return when the row is out of the
\* tolerance, go on to the lock after the last row.
AccuracyRowStep ==
    /\ operation = "Calculate"
    /\ \E t \in 1..Len(tasks) :
           LET row == tasks[t].i
               yTrueV == At(yTrue, row, t - 1)
               yHatV == At(yHat, row, t - 1)
           IN  /\ tasks[t].pc = "rows"
               /\ tasks' = [tasks EXCEPT ![t] =
                      IF FGt(FAbs(FSub(yHatV, yTrueV)), Precision)
                      THEN [@ EXCEPT !.pc = "return"]
                      ELSE IF row + 1 < RowCount(yTrue)
                      THEN [@ EXCEPT !.i = row + 1]
                      ELSE [@ EXCEPT !.i = row + 1, !.pc = "lock"]]
    /\ UNCHANGED <<operation, m1, m2, args, m3, wg, ret, written, accuracyVars>>
    /\ UNCHANGED <<trainVars, checkpointVars>>

\* m.Lock() never waits.
MutexIgnored == TRUE

\* m.Lock() returns when the mutex is unlocked.
MutexFree == mutex = NoTask

AccuracyLock ==
    /\ operation = "Calculate"
    /\ \E t \in 1..Len(tasks) :
           /\ tasks[t].pc = "lock"
           /\ MutexFree
           /\ mutex' = t - 1
           /\ tasks' = [tasks EXCEPT ![t].pc = "read"]
    /\ UNCHANGED <<operation, m1, m2, args, m3, wg, ret, written>>
    /\ UNCHANGED <<yTrue, yHat, correct>>
    /\ UNCHANGED <<trainVars, checkpointVars>>

\* correct++, first half: the counter is read.
AccuracyRead ==
    /\ operation = "Calculate"
    /\ \E t \in 1..Len(tasks) :
           /\ tasks[t].pc = "read"
           /\ tasks' = [tasks EXCEPT ![t].pc = "write", ![t].local = correct]
    /\ UNCHANGED <<operation, m1, m2, args, m3, wg, ret, written, accuracyVars>>
    /\ UNCHANGED <<trainVars, checkpointVars>>

\* correct++, second half: the counter is written.
AccuracyWrite ==
    /\ operation = "Calculate"
    /\ \E t \in 1..Len(tasks) :
           /\ tasks[t].pc = "write"
           /\ correct' = tasks[t].local + 1
           /\ written' = written \cup {[task |-> t - 1, held |-> mutex = t - 1]}
           /\ tasks' = [tasks EXCEPT ![t].pc = "unlock",
                                     ![t].increments = @ + 1]
    /\ UNCHANGED <<operation, m1, m2, args, m3, wg, ret>>
    /\ UNCHANGED <<yTrue, yHat, mutex>>
    /\ UNCHANGED <<trainVars, checkpointVars>>

AccuracyUnlock ==
    /\ operation = "Calculate"
    /\ \E t \in 1..Len(tasks) :
           /\ tasks[t].pc = "unlock"
           /\ mutex' = NoTask
           /\ tasks' = [tasks EXCEPT ![t].pc = "return"]
    /\ UNCHANGED <<operation, m1, m2, args, m3, wg, ret, written>>
    /\ UNCHANGED <<yTrue, yHat, correct>>
    /\ UNCHANGED <<trainVars, checkpointVars>>

\* The goroutine returns: its deferred wg.Done() runs.
AccuracyTaskDone ==
    /\ operation = "Calculate"
    /\ \E t \in 1..Len(tasks) :
           /\ tasks[t].pc = "return"
           /\ wg' = wg - 1
           /\ tasks' = [tasks EXCEPT ![t].pc = "finished"]
    /\ UNCHANGED <<operation, m1, m2, args, m3, ret, written, accuracyVars>>
    /\ UNCHANGED <<trainVars, checkpointVars>>

\* The caller reads the counter and returns the quotient.
AccuracyReturn ==
    /\ operation = "Calculate"
    /\ ~ret.done
    /\ WaitPassed
    /\ ret' = [done |-> TRUE,
               m |-> FDiv(F(correct), F(ColumnCount(yTrue))),
               err |-> ""]
    /\ UNCHANGED <<operation, m1, m2, args, m3, tasks, wg, written, accuracyVars>>
    /\ UNCHANGED <<trainVars, checkpointVars>>

AccuracyInit == TrainIdle /\ CheckpointIdle /\ MatrixIdle /\ AccuracyIdle

AccuracyNext ==
    \/ AccuracyCall
    \/ AccuracyRowStep
    \/ AccuracyLock
    \/ AccuracyRead
    \/ AccuracyWrite
    \/ AccuracyUnlock
    \/ AccuracyTaskDone
    \/ AccuracyReturn

AccuracySpec == AccuracyInit /\ [][AccuracyNext]_vars

(***************************************************************************)
(* The functions of the library that are called once and return: the       *)
(* categorical metrics, the losses and the sequential operations of        *)
(* package matrix.  operation is the function called, m1, m2, yTrue, yHat  *)
(* and args are its arguments and ret is what it returned (ret.m a matrix  *)
(* or a float64).                                                          *)
(***************************************************************************)
\* The loop on the rows of column c in oneHotEncodingToValues, from row r.
RECURSIVE LargestIndexFrom(_, _, _, _, _)
LargestIndexFrom(m, c, r, largestIndex, largestValue) ==
    IF r >= RowCount(m) THEN largestIndex
    ELSE IF FGt(At(m, r, c), largestValue)
         THEN LargestIndexFrom(m, c, r + 1, r, At(m, r, c))
         ELSE LargestIndexFrom(m, c, r + 1, largestIndex, largestValue)

\* The same loop taking the last of several equal largest values.
oneHotEncodingToLastValues(m) ==
    [c \in 1..ColumnCount(m) |->
        LET largest == LargestIndexFrom(m, c - 1, 0, 0, At(m, 0, c - 1))
        IN  CHOOSE r \in 0..(RowCount(m) - 1) :
                /\ At(m, r, c - 1) = At(m, largest, c - 1)
                /\ \A q \in (r + 1)..(RowCount(m) - 1) :
                       At(m, q, c - 1) # At(m, largest, c - 1)]

\* predictions[j], as element j + 1.
oneHotEncodingToValues(m) ==
    [c \in 1..ColumnCount(m) |->
        LargestIndexFrom(m, c - 1, 0, 0, At(m, 0, c - 1))]

\* int(f): the conversion of a finite float64 truncates toward zero.
IntOf(f) == Sign(f[1]) * (Abs(f[1]) \div f[2])

CategoricalAccuracyCalculate(labels, predicted) ==
    LET predictions == oneHotEncodingToValues(predicted)
        trueValues == oneHotEncodingToValues(labels)
        hits == Cardinality({k \in 1..Len(predictions) :
                                predictions[k] = trueValues[k]})
    IN  FDiv(F(hits), F(Len(predictions)))

SparseCategoricalAccuracyCalculate(labels, predicted) ==
    LET predictions == oneHotEncodingToValues(predicted)
        hits == Cardinality({k \in 1..Len(predictions) :
                                predictions[k] = IntOf(At(labels, 0, k - 1))})
    IN  FDiv(F(hits), F(Len(predictions)))

\* The sizes of the arguments of the metrics: 1..MaxDim classes, one or two
\* samples.
BitShapes == {NewZeroMatrix(r, c) : r \in 1..MaxDim, c \in 1..2}

\* The choices of elements 0 and 1 for a matrix of the size of z.
BitsOf(z) == [1..(RowCount(z) * ColumnCount(z)) -> BOOLEAN]

\* A function of the library has returned a value.
Returned(name, value) ==
    /\ operation' = name
    /\ ret' = [done |-> TRUE, m |-> value, err |-> ""]

CategoricalAccuracyCall ==
    /\ operation = ""
    /\ \E z \in BitShapes :
         \E labelBits \in BitsOf(z), predictedBits \in BitsOf(z) :
           /\ yTrue' = FromBits(z, labelBits)
           /\ yHat' = FromBits(z, predictedBits)
           /\ Returned("CategoricalAccuracy",
                       CategoricalAccuracyCalculate(yTrue', yHat'))
    /\ UNCHANGED <<m1, m2, args, m3, tasks, wg, written, correct, mutex>>
    /\ UNCHANGED <<trainVars, checkpointVars>>

\* The labels are a row of class numbers, one of them possibly no row of the
\* predictions.
SparseCategoricalAccuracyCall ==
    /\ operation = ""
    /\ \E z \in BitShapes :
         \E predictedBits \in BitsOf(z),
            classes \in [1..ColumnCount(z) -> 0..RowCount(z)] :
           /\ yTrue' = <<[c \in 1..ColumnCount(z) |-> F(classes[c])]>>
           /\ yHat' = FromBits(z, predictedBits)
           /\ Returned("SparseCategoricalAccuracy",
                       SparseCategoricalAccuracyCalculate(yTrue', yHat'))
    /\ UNCHANGED <<m1, m2, args, m3, tasks, wg, written, correct, mutex>>
    /\ UNCHANGED <<trainVars, checkpointVars>>

\* math.Log on the values whose logarithm is a float64 the model can hold:
\* Log(1) = 0, Log(0) = -Inf, Log(+Inf) = +Inf, NaN for a negative number.
LogOfBit(v) ==
    CASE v = F(1) -> F(0)
      [] v = F(0) -> NegInf
      [] v = PosInf -> PosInf
      [] IsNaN(v) \/ v[1] < 0 -> NaN

\* CategoricalCrossEntropyLoss.ApplyMatrix, Epsilon being the float64 given.
CrossEntropyApplyMatrix(epsilon, labels, predicted) ==
    LET floor == FDiv(epsilon, F(ColumnCount(labels) * 10))
        Term(r, c) == FMul(FNeg(At(labels, r, c)),
                           LogOfBit(FMax(At(predicted, r, c), floor)))
        Total(r, c) == SumSeq([k \in 1..RowCount(labels) |-> Term(k - 1, c)])
    IN  Build(1, ColumnCount(labels), Total)

LossNames == {"SquareLoss", "CategoricalCrossEntropyLoss"}

\* ApplyMatrix of the loss of the given name; the zero value of
\* CategoricalCrossEntropyLoss has Epsilon 0.
ApplyMatrixOf(name, labels, predicted) ==
    IF name = "SquareLoss" THEN LossApplyMatrix(labels, predicted)
    ELSE CrossEntropyApplyMatrix(F(0), labels, predicted)

LossApplyMatrixCall ==
    /\ operation = ""
    /\ \E name \in LossNames, z \in BitShapes :
         \E labelBits \in BitsOf(z), predictedBits \in BitsOf(z) :
           /\ yTrue' = FromBits(z, labelBits)
           /\ yHat' = FromBits(z, predictedBits)
           /\ args' = <<name>>
           /\ Returned("ApplyMatrix", ApplyMatrixOf(name, yTrue', yHat'))
    /\ UNCHANGED <<m1, m2, m3, tasks, wg, written, correct, mutex>>
    /\ UNCHANGED <<trainVars, checkpointVars>>

LossApplyDerivativeMatrixCall ==
    /\ operation = ""
    /\ \E z \in BitShapes :
         \E labelBits \in BitsOf(z), predictedBits \in BitsOf(z) :
           /\ yTrue' = FromBits(z, labelBits)
           /\ yHat' = FromBits(z, predictedBits)
           /\ args' = <<"SquareLoss">>
           /\ Returned("ApplyDerivativeMatrix",
                       LossApplyDerivativeMatrix(yTrue', yHat'))
    /\ UNCHANGED <<m1, m2, m3, tasks, wg, written, correct, mutex>>
    /\ UNCHANGED <<trainVars, checkpointVars>>

\* The matrices of whole numbers of the given size.
WholeNumbers == {-1, 0, 2}

IntMatrices(rows, columns) == [1..rows -> [1..columns -> {F(v) : v \in WholeNumbers}]]

\* T and Multiply on matrices of int: a of rows x inner, b of inner x columns.
\* The call computes a.Multiply(b).T(), b.T().Multiply(a.T()), a.T() and
\* a.T().T().
TransposeCall ==
    /\ operation = ""
    /\ \E rows \in 1..MaxDim, inner \in 1..2, columns \in 1..2 :
         \E a \in IntMatrices(rows, inner), b \in IntMatrices(inner, columns) :
           /\ m1' = a
           /\ m2' = b
           /\ m3' = Multiply(T(b), T(a))
           /\ args' = <<T(a), T(T(a))>>
           /\ Returned("T", T(Multiply(a, b)))
    /\ UNCHANGED <<tasks, wg, written>>
    /\ UNCHANGED <<trainVars, checkpointVars, accuracyVars>>

\* Slices of rows, of equal and of different lengths, and with no row.
Rows == UNION {[1..k -> {F(1), F(2)}] : k \in 0..2}

RowSlices == UNION {[1..n -> Rows] : n \in 0..MaxDim}

NewMatrixCall ==
    /\ operation = ""
    /\ \E data \in RowSlices :
          /\ args' = <<data>>
          /\ operation' = "NewMatrix"
          /\ ret' = [done |-> TRUE, m |-> NewMatrix(data).m, err |-> NewMatrix(data).err]
    /\ UNCHANGED <<m1, m2, m3, tasks, wg, written>>
    /\ UNCHANGED <<trainVars, checkpointVars, accuracyVars>>

\* matrix.UnmarshalJSON on a new matrix, of the document json.Marshal
\* writes for a slice of rows.
MatrixUnmarshalJSONCall ==
    /\ operation = ""
    /\ \E data \in RowSlices :
          /\ args' = <<matrixMarshalJSON(data).doc>>
          /\ operation' = "UnmarshalJSON"
          /\ ret' = [done |-> TRUE, m |-> matrixUnmarshalJSON(args'[1]).m,
                     err |-> matrixUnmarshalJSON(args'[1]).err]
    /\ UNCHANGED <<m1, m2, m3, tasks, wg, written>>
    /\ UNCHANGED <<trainVars, checkpointVars, accuracyVars>>

IdentityMatrixCall ==
    /\ operation = ""
    /\ \E rowCount \in 0..MaxDim :
          /\ args' = <<rowCount>>
          /\ Returned("IdentityMatrix", IdentityMatrix(rowCount))
    /\ UNCHANGED <<m1, m2, m3, tasks, wg, written>>
    /\ UNCHANGED <<trainVars, checkpointVars, accuracyVars>>

MinorCall ==
    /\ operation = ""
    /\ \E rows \in 1..MaxDim, columns \in 1..2 :
         \E a \in IntMatrices(rows, columns), row \in 0..rows, column \in 0..columns :
           /\ m1' = a
           /\ args' = <<row, column>>
           /\ operation' = "Minor"
           /\ ret' = [done |-> TRUE, m |-> Minor(a, row, column).m,
                      err |-> Minor(a, row, column).err]
    /\ UNCHANGED <<m2, m3, tasks, wg, written>>
    /\ UNCHANGED <<trainVars, checkpointVars, accuracyVars>>

\* matrix.Inverse on a matrix of whole numbers; args holds the receiver as it
\* was before the call.
InverseCall ==
    /\ operation = ""
    /\ \E rows \in 1..MaxDim, columns \in 1..MaxDim :
         \E a \in IntMatrices(rows, columns) :
           /\ m1' = a
           /\ args' = <<a>>
           /\ operation' = "Inverse"
           /\ ret' = [done |-> TRUE, m |-> Inverse(a).m, err |-> Inverse(a).err]
    /\ UNCHANGED <<m2, m3, tasks, wg, written>>
    /\ UNCHANGED <<trainVars, checkpointVars, accuracyVars>>

\* The matrices handed to a Dropout layer: their elements are neither 0 nor
\* a value the random source draws.
DropoutInputs(rows, columns) == [1..rows -> [1..columns -> {F(1), F(2)}]]

\* dropout.ForwardPropagate(X) on a layer of the given input size; args
\* holds the layer.
DropoutForwardPropagateCall ==
    /\ operation = ""
    /\ \E inputSize \in 1..MaxDim, rows \in 1..MaxDim, columns \in 1..2 :
         \E a \in DropoutInputs(rows, columns) :
          \E o \in layerForwardPropagate(NewDropout(inputSize, Frac(1, 2)), a) :
           /\ m1' = a
           /\ args' = <<NewDropout(inputSize, Frac(1, 2))>>
           /\ Returned("Dropout.ForwardPropagate", o.output[2])
    /\ UNCHANGED <<m2, m3, tasks, wg, written>>
    /\ UNCHANGED <<trainVars, checkpointVars, accuracyVars>>

\* dropout.BackPropagate(nextLayerPropagation, X, A, parameters); args holds
\* the layer before and after the call.
DropoutBackPropagateCall ==
    /\ operation = ""
    /\ \E inputSize \in 1..MaxDim, rows \in 1..MaxDim, columns \in 1..2 :
         \E a \in DropoutInputs(rows, columns) :
           LET d == NewDropout(inputSize, Frac(1, 2))
               back == dropoutBackPropagate(d, a, NewOnesMatrix(rows, columns),
                                            <<NewOnesMatrix(rows, columns),
                                              NewOnesMatrix(rows, columns)>>,
                                            Parameters(1, F(1), {}))
           IN  /\ m1' = a
               /\ args' = <<d, back.layer>>
               /\ Returned("Dropout.BackPropagate", back.result)
    /\ UNCHANGED <<m2, m3, tasks, wg, written>>
    /\ UNCHANGED <<trainVars, checkpointVars, accuracyVars>>

LibraryInit == TrainIdle /\ CheckpointIdle /\ MatrixIdle /\ AccuracyIdle

LibraryNext ==
    \/ CategoricalAccuracyCall
    \/ SparseCategoricalAccuracyCall
    \/ LossApplyMatrixCall
    \/ LossApplyDerivativeMatrixCall
    \/ TransposeCall
    \/ NewMatrixCall
    \/ MatrixUnmarshalJSONCall
    \/ IdentityMatrixCall
    \/ MinorCall
    \/ InverseCall
    \/ DropoutForwardPropagateCall
    \/ DropoutBackPropagateCall

LibrarySpec == LibraryInit /\ [][LibraryNext]_vars

(***************************************************************************)
(* Definitions used to state the properties.                               *)
(***************************************************************************)
\* The prediction of the batch in hand: the activated output of the last layer.
Prediction == inputCache[Len(layers)][2]

\* The elements of a matrix, row after row.
Elements(m) ==
    [n \in 1..(RowCount(m) * ColumnCount(m)) |->
        At(m, (n - 1) \div ColumnCount(m), (n - 1) % ColumnCount(m))]

\* The sum of every element of the loss matrix over the number of samples.
AverageLoss(prediction, Yb) ==
    LET losses == LossApplyMatrix(Yb, prediction)
    IN  FDiv(SumSeq(Elements(losses)), F(ColumnCount(losses)))

ShapeErrors == {"invalid input size", "invalid output size", "incosistent sample count"}

CostError == "cost is an invalid number"

\* Some batch pair has a wrong row count or unequal column counts.
HasShapeDefect ==
    \E k \in 1..Len(X) :
        \/ RowCount(X[k]) # NetInputSize(layers)[1]
        \/ RowCount(Y[k]) # NetOutputSize(layers)[1]
        \/ ColumnCount(X[k]) # ColumnCount(Y[k])

\* NaN, +Inf, -Inf or zero.
NotANumberInfiniteOrZero(c) == c \in {<<0, 0>>, <<1, 0>>, <<-1, 0>>, <<0, 1>>}

LastEvent == trace[Len(trace)]

(***************************************************************************)
(* C1: the cost ComputeCost returns for a batch is the sum of every        *)
(* element of the loss matrix, over all its rows and columns, divided by   *)
(* the number of columns, whatever the shape of the loss matrix.           *)
(* Stated for the batch Train is about to compute the cost of.             *)
(***************************************************************************)
C1_CostSumsEveryLoss ==
    pc = "cost" /\ ~Panics(Prediction) =>
        ComputeCost(Prediction, Y[i + 1]) = AverageLoss(Prediction, Y[i + 1])

(***************************************************************************)
(* C2: with a batch pair of a wrong shape anywhere in the training set,    *)
(* Train returns a shape error and has run no forward pass, no backward    *)
(* pass and no checkpoint, and the layers are as they were constructed.    *)
(***************************************************************************)
C2_InvalidShapeStopsTrain ==
    /\ HasShapeDefect /\ pc \notin {"idle", "panic"} =>
           /\ pc = "returned"
           /\ err \in ShapeErrors
    /\ err \in ShapeErrors =>
           /\ HasShapeDefect
           /\ trace = <<>>
           /\ dumps = <<>>
           /\ layers = initialLayers

\* Train has returned a shape error for a training set whose first batch is
\* sound and whose second is not.
C2_Witness ==
    /\ pc = "returned"
    /\ err \in ShapeErrors
    /\ Len(X) > 1
    /\ validateTrainSamples(layers, <<X[1]>>, <<Y[1]>>) = ""

(***************************************************************************)
(* C3: Train goes on after a batch only if the cost accumulated over the   *)
(* epoch is a number, finite and not zero; otherwise it returns the cost   *)
(* error at once: the last thing it did is compute that cost, the layers   *)
(* are as the batch's forward pass found them (updates of earlier batches  *)
(* and epochs included), and the checkpoints are those of the finished     *)
(* epochs.  After the return nothing of the run changes any more.          *)
(***************************************************************************)
C3_InvalidCostAbortsTrain ==
    /\ [](pc = "backward" \/ (pc = "batch" /\ i > 0) => ~NotANumberInfiniteOrZero(cost))
    /\ [](err = CostError =>
              /\ NotANumberInfiniteOrZero(cost)
              /\ LastEvent = Event("ComputeCost", e, i, -1)
              /\ layers = batchLayers
              /\ Len(dumps) = IF parameters.Backups.ToCreate THEN e ELSE 0)
    /\ [][pc = "cost" /\ NotANumberInfiniteOrZero(cost') =>
              pc' = "returned" /\ err' = CostError /\ layers' = layers]_vars
    /\ [][pc = "returned" =>
              layers' = layers /\ dumps' = dumps /\ trace' = trace /\ err' = err]_vars

\* Train has given up on a batch after earlier batches changed the weights.
C3_Witness ==
    /\ pc = "returned"
    /\ err = CostError
    /\ Len(trace) > 2
    /\ layers # initialLayers

\* The same, for a cost that is not a number.
C3_WitnessNaN ==
    /\ pc = "returned"
    /\ err = CostError
    /\ IsNaN(cost)
    /\ layers # initialLayers

\* The same, for an infinite cost.
C3_WitnessInfinite ==
    /\ pc = "returned"
    /\ err = CostError
    /\ IsInf(cost)
    /\ layers # initialLayers

(***************************************************************************)
(* C4: a Train call on a sound training set terminates.  It returns nil    *)
(* unless a cost was invalid, and then it has run exactly EpochCount       *)
(* epochs, 5 if EpochCount was 0.  At any moment its steps so far are the  *)
(* first steps of: for each epoch, for each batch in index order, the      *)
(* forward pass, the cost, the backward pass from the last layer to the    *)
(* first; then the end of the epoch.  The cost is computed from a forward  *)
(* pass through the layers as they are before the batch's update.          *)
(***************************************************************************)
ExpectedEpochCount ==
    IF callerParameters.EpochCount = 0 THEN 5 ELSE callerParameters.EpochCount

\* The steps of a complete run of epochs over nb batches and L layers.
ExpectedTrace(epochs, nb, L) ==
    LET perBatch == L + 2
        perEpoch == nb * perBatch + 1
    IN  [n \in 1..(epochs * perEpoch) |->
            LET ep == (n - 1) \div perEpoch
                r == (n - 1) % perEpoch
                b == r \div perBatch
                q == r % perBatch
            IN  IF r = perEpoch - 1 THEN Event("IncrementEpoch", ep, -1, -1)
                ELSE IF q = 0 THEN Event("ForwardPropagate", ep, b, -1)
                ELSE IF q = 1 THEN Event("ComputeCost", ep, b, -1)
                ELSE Event("BackPropagate", ep, b, L + 1 - q)]

IsPrefix(s, t) == Len(s) <= Len(t) /\ \A n \in 1..Len(s) : s[n] = t[n]

C4_TrainRunsEveryEpochInOrder ==
    /\ [](IsPrefix(trace, ExpectedTrace(ExpectedEpochCount, Len(X), Len(layers))))
    /\ [](pc = "returned" /\ err = "" =>
              /\ e = ExpectedEpochCount
              /\ trace = ExpectedTrace(ExpectedEpochCount, Len(X), Len(layers)))
    /\ [](pc = "returned" /\ ~HasShapeDefect => err \in {"", CostError})
    /\ [](pc = "cost" =>
              /\ layers = batchLayers
              /\ inputCache \in ForwardPropagate(layers, X[i + 1]))
    /\ [](pc = "batch" /\ i < Len(X) => ForwardPropagate(layers, X[i + 1]) # {})
    /\ (pc = "epoch" ~> pc = "returned")

\* Train has returned nil after two epochs of two batches.
C4_Witness ==
    /\ pc = "returned"
    /\ err = ""
    /\ callerParameters.EpochCount = 2
    /\ Len(X) = 2
    /\ Len(trace) > 0

\* Train has returned nil after the five epochs of an unset EpochCount.
C4_WitnessDefault ==
    /\ pc = "returned"
    /\ err = ""
    /\ callerParameters.EpochCount = 0
    /\ e = 5

(***************************************************************************)
(* Definitions used to state the properties of the backward pass.  They    *)
(* are about the turn of BackPropagate's loop that is about to run: layer  *)
(* j of the source is layers[j + 1].                                       *)
(***************************************************************************)
ThisLayer == layers[j + 1]

\* The input the layer had in the forward pass: the cache of the layer below.
LayerInput == inputCache[j][2]

\* dZ: the gradient the layer received times its activation derivative.
dZ ==
    MultiplyElementwise(backPropagation,
                        ActivationDerivativeMatrix(ThisLayer.activation,
                                                   inputCache[j + 1][1]))

\* One step of gradient descent on a Dense layer d at learning rate lr:
\* W - lr * (dZ * input^T / N + WeightDecay * W), and the same for the bias
\* with a column of ones for the input.
OneGradientStep(d, gradient, input, lr, weightDecay) ==
    LET N == ColumnCount(input)
        Mean(m) == MultiplyByScalar(m, Frac(1, N))
        Step(w, dw) ==
            Add(w, MultiplyByScalar(Add(Mean(dw), MultiplyByScalar(w, weightDecay)),
                                    FNeg(lr)))
    IN  [d EXCEPT !.weights = Step(d.weights, Multiply(gradient, T(input))),
                  !.bias = Step(d.bias, Multiply(gradient, NewOnesMatrix(N, 1)))]

\* The learning rate of epoch number ep.
EpochLearningRate(ep) ==
    FDiv(parameters.InitialLearningRate,
         FAdd(F(1), FMul(parameters.LearningRateDecay, F(ep))))

\* The layer after its turn, at the given learning rate.
LayerAfterTurn(lr) ==
    IF ThisLayer.Type = "Dense"
    THEN OneGradientStep(ThisLayer, dZ, LayerInput, lr, parameters.WeightDecay)
    ELSE ThisLayer

C6_EachLayerUpdatedOnceInOrder ==
    /\ [][pc = "backward" =>
              /\ j' = j - 1
              /\ (pc' = "backward") = (j > 0)
              /\ LastEvent = IF j = Len(layers) - 1
                             THEN Event("ComputeCost", e, i, -1)
                             ELSE Event("BackPropagate", e, i, j + 1)
              /\ trace' = Append(trace, Event("BackPropagate", e, i, j))
              /\ \A k \in 1..(j + 1) : layers[k] = batchLayers[k]
              /\ \A k \in 1..Len(layers) : k # j + 1 => layers'[k] = layers[k]
              /\ layers'[j + 1] = LayerAfterTurn(EpochLearningRate(e))]_vars
    /\ [][pc # "backward" => layers' = layers]_vars

\* The first layer of a network of several layers has been updated, after
\* the layers above it.
C6_Witness ==
    /\ pc = "batch"
    /\ i > 0
    /\ Len(layers) > 1
    /\ \A k \in 1..Len(layers) :
           layers[k].Type = "Dense" => layers[k] # batchLayers[k]

(***************************************************************************)
(* C7: the gradient a layer returns is clipped to [-ClipValue, ClipValue]  *)
(* element by element before the layer below receives it, so every layer   *)
(* but the last receives a gradient within these bounds.  The update of a  *)
(* layer is the full gradient step, not a clipped one, and with ClipValue  *)
(* not set the gradient is handed on as returned.                          *)
(***************************************************************************)
WithinClipValue(m) ==
    \A n \in 1..Len(Elements(m)) :
        /\ FGe(Elements(m)[n], FNeg(parameters.ClipValue))
        /\ FGe(parameters.ClipValue, Elements(m)[n])

\* m with every element outside [-ClipValue, ClipValue] moved to the bound.
Clamped(m) ==
    LET c == parameters.ClipValue
        Elem(r, k) == IF FGt(At(m, r, k), c) THEN c
                      ELSE IF FLt(At(m, r, k), FNeg(c)) THEN FNeg(c)
                      ELSE At(m, r, k)
    IN  Build(RowCount(m), ColumnCount(m), Elem)

C7_WitnessNoClip ==
    /\ pc = "backward"
    /\ j < Len(layers) - 1
    /\ callerParameters.ClipValue = F(0)
    /\ \E n \in 1..Len(Elements(backPropagation)) :
           FGt(FAbs(Elements(backPropagation)[n]), F(1))

(***************************************************************************)
(* C8: while Train runs the epoch counter of the parameters is the number  *)
(* of epochs finished in this call: 0 in the first epoch, one more after   *)
(* the last batch of each epoch, and it changes at no other moment of an   *)
(* epoch.  Every update of a Dense layer in epoch e is a gradient step at  *)
(* the rate InitialLearningRate / (1 + LearningRateDecay * e).             *)
(***************************************************************************)
C8_LearningRateFollowsEpoch ==
    /\ [](pc \in TrainPcs => parameters.currentEpoch = e)
    /\ [][pc = "backward" =>
              layers'[j + 1] = LayerAfterTurn(EpochLearningRate(e))]_vars
    /\ [][pc = "batch" /\ pc' = "epoch" =>
              /\ i = Len(X)
              /\ e' = e + 1
              /\ parameters'.currentEpoch = parameters.currentEpoch + 1]_vars
    /\ [][(pc \in TrainPcs /\ pc' \in TrainPcs /\ ~(pc = "batch" /\ pc' = "epoch")) =>
              (e' = e /\ parameters'.currentEpoch = parameters.currentEpoch)]_vars

\* A Dense layer is about to be updated in the second epoch of a run whose
\* learning rate decays.
C8_Witness ==
    /\ pc = "backward"
    /\ e = 1
    /\ callerParameters.LearningRateDecay = F(1)
    /\ ThisLayer.Type = "Dense"
    /\ dZ # NewZeroMatrix(RowCount(dZ), ColumnCount(dZ))

(***************************************************************************)
(* C9: what Predict returns for X is the output of the forward pass of X   *)
(* through the layers with the Dropout layers taken out.                   *)
(***************************************************************************)
WithoutDropout(ls) == SelectSeq(ls, LAMBDA l : l.Type # "Dropout")

\* The activated outputs of the last layer that nn.ForwardPropagate can give.
ForwardOutputs(ls, Xin) == {cache[Len(ls)][2] : cache \in ForwardPropagate(ls, Xin)}

PredictError(ls, Xin) == ""

ForwardPropagateError(ls, Xin) == ""

\* The outcomes of the ForwardPropagate of the first layer that is run on Xin.
FirstLayerOutcomes(ls, Xin) == layerForwardPropagate(ls[1], Xin)

(***************************************************************************)
(* C11: when the ForwardPropagate of a layer fails because the row count   *)
(* of its input differs from the input size of the layer, Predict and the  *)
(* network's ForwardPropagate hand an error to their caller and do not run *)
(* the remaining layers on the failed output.                              *)
(***************************************************************************)
C11_LayerFailureIsReturned ==
    (/\ predictX # NilMatrix
     /\ RowCount(predictX) # InputSize(layers[1])[1]
     /\ \A o \in FirstLayerOutcomes(layers, predictX) : o.err) =>
        /\ PredictError(layers, predictX) # ""
        /\ predictY # PanicMatrix
        /\ ForwardPropagateError(layers, predictX) # ""
        /\ \A cache \in ForwardPropagate(layers, predictX) :
               \A k \in 0..Len(layers) : cache[k][2] # PanicMatrix

(***************************************************************************)
(* Definitions used to state the properties of checkpoints and of the      *)
(* constructors.                                                           *)
(***************************************************************************)
\* The names the registries of activations and of losses know.
KnownActivations == {"Linear", "Sigmoid", "ReLU", "Softmax", "SoftmaxWithCCE"}

KnownLosses ==
    {"SquareLoss", "LogLoss", "CategoricalCrossEntropyLoss", "CCELossWithSoftmax"}

\* Every activation and the loss of the network are in the registries.
InRegistry(n) ==
    /\ \A k \in 1..Len(n.layers) :
           n.layers[k].Type = "Dense" => n.layers[k].activation \in KnownActivations
    /\ n.LossFunction.Name \in KnownLosses

SameLayer(l1, l2) ==
    /\ l1.Type = l2.Type
    /\ l1.Type = "Dense" =>
           /\ l1.weights = l2.weights
           /\ l1.bias = l2.bias
           /\ l1.activation = l2.activation
    /\ l1.Type = "Dropout" =>
           /\ l1.inputSize = l2.inputSize
           /\ l1.rate = l2.rate

SameNetwork(n1, n2) ==
    /\ Len(n1.layers) = Len(n2.layers)
    /\ \A k \in 1..Len(n1.layers) : SameLayer(n1.layers[k], n2.layers[k])
    /\ n1.LossFunction.Name = n2.LossFunction.Name

\* The file is as DumpNeuralNetwork wrote it for the network.
FileIsDumpOfNet == doc # JAbsent /\ doc = nn_MarshalJSON(net).doc

(***************************************************************************)
(* C12: for a network of Dense and Dropout layers whose activations and    *)
(* loss are in the registries (and whose numbers are finite), loading what *)
(* MarshalJSON wrote succeeds and gives a network with the same number and *)
(* order of layers, each Dense layer with equal weights, equal bias and    *)
(* the same activation, each Dropout layer with the same input size and    *)
(* rate, and the same loss.                                                *)
(***************************************************************************)
C12_CheckpointRoundTrip ==
    loaded.done /\ InRegistry(net) /\ FileIsDumpOfNet =>
        /\ loaded.err = ""
        /\ SameNetwork(net, loaded.nn)

\* A network of a ReLU Dense layer and a Dropout layer has been dumped and
\* loaded.
C12_Witness ==
    /\ loaded.done
    /\ FileIsDumpOfNet
    /\ Len(net.layers) = 2
    /\ net.layers[1].Type = "Dense"
    /\ net.layers[1].activation = "ReLU"
    /\ net.layers[2].Type = "Dropout"
    /\ loaded.nn # NilNetwork

\* The Activation of a Dense layer of the file, or its LossFunction, is not
\* the name of something in the registry.
NamesUnknownActivation(d) ==
    \E k \in 1..Len(Field(d, "Layers").v) :
        LET l == Field(d, "Layers").v[k]
        IN  /\ Field(l, "Type").t = "string"
            /\ Field(l, "Type").v = "Dense"
            /\ \/ Field(l, "Activation").t # "string"
               \/ /\ Field(l, "Activation").t = "string"
                  /\ Field(l, "Activation").v \notin KnownActivations

NamesUnknownLoss(d) ==
    \/ Field(d, "LossFunction").t # "string"
    \/ /\ Field(d, "LossFunction").t = "string"
       /\ Field(d, "LossFunction").v \notin KnownLosses

(***************************************************************************)
(* C13: loading a file in which a Dense layer names an activation that is  *)
(* not in the registry, or whose LossFunction is not in the registry,      *)
(* returns an error and no network; a load that succeeds gives every Dense *)
(* layer the activation the file names and the network the loss the file   *)
(* names, never a nil or default one.                                      *)
(***************************************************************************)
C13_UnknownNameFailsLoad ==
    loaded.done =>
        /\ NamesUnknownActivation(doc) \/ NamesUnknownLoss(doc) =>
               /\ loaded.err # ""
               /\ loaded.nn = NilNetwork
        /\ loaded.err = "" =>
               /\ \A k \in 1..Len(loaded.nn.layers) :
                      loaded.nn.layers[k].Type = "Dense" =>
                          /\ loaded.nn.layers[k].activation \in KnownActivations
                          /\ loaded.nn.layers[k].activation =
                                 Field(Field(doc, "Layers").v[k], "Activation").v
               /\ loaded.nn.LossFunction.Name \in KnownLosses
               /\ loaded.nn.LossFunction.Name = Field(doc, "LossFunction").v

\* A file of two layers that names an unknown activation has been refused.
C13_Witness ==
    /\ loaded.done
    /\ NamesUnknownActivation(doc)
    /\ ~NamesUnknownLoss(doc)
    /\ Len(net.layers) = 2
    /\ loaded.err # ""

\* A file that names an unknown loss has been refused.
C13_WitnessLoss ==
    /\ loaded.done
    /\ ~NamesUnknownActivation(doc)
    /\ NamesUnknownLoss(doc)
    /\ loaded.err # ""

(***************************************************************************)
(* C14: NewDense(W, b, activation) returns the invalid-bias-size error and *)
(* no layer when the row count of b differs from the row count of W, and   *)
(* otherwise no error and a Dense layer of exactly W, b and the            *)
(* activation.                                                             *)
(***************************************************************************)
C14_NewDenseChecksBiasRows ==
    built.by = "NewDense" =>
        IF RowCount(built.b) # RowCount(built.W)
        THEN /\ built.err = "invalid bias size"
             /\ built.layer = NilLayer
        ELSE /\ built.err = ""
             /\ built.layer.Type = "Dense"
             /\ built.layer.weights = built.W
             /\ built.layer.bias = built.b
             /\ built.layer.activation = built.a

\* NewDense has refused a bias of two rows for weights of one row.
C14_Witness ==
    /\ built.by = "NewDense"
    /\ RowCount(built.b) = 2
    /\ RowCount(built.W) = 1
    /\ built.err # ""

\* NewDense has returned a layer of weights and bias of two rows.
C14_WitnessLayer ==
    /\ built.by = "NewDense"
    /\ RowCount(built.b) = 2
    /\ RowCount(built.W) = 2
    /\ built.layer # NilLayer

\* The Dense layers that exist: the one just built, those of the slice, of
\* the network and of the loaded network.
DenseLayers ==
    {l \in {built.layer}
            \cup {pending[k] : k \in 1..Len(pending)}
            \cup {net.layers[k] : k \in 1..Len(net.layers)}
            \cup {loaded.nn.layers[k] : k \in 1..Len(loaded.nn.layers)} :
        l.Type = "Dense"}

(***************************************************************************)
(* C15: every Dense layer that exists has weights of OutputSize rows and   *)
(* InputSize columns and a bias of OutputSize rows and exactly one column. *)
(***************************************************************************)
C15_DenseShapeInvariant ==
    \A l \in DenseLayers :
        /\ Size(l.weights) = <<OutputSize(l)[1], InputSize(l)[1]>>
        /\ RowCount(l.bias) = OutputSize(l)[1]
        /\ ColumnCount(l.bias) = 1

\* The output size of each layer is the input size of the next.
Chained(ls) ==
    \A k \in 1..(Len(ls) - 1) : OutputSize(ls[k]) = InputSize(ls[k + 1])

(***************************************************************************)
(* C16: in every network NewNeuralNetwork or LoadNeuralNetwork returned,   *)
(* the output size of each layer equals the input size of the next layer.  *)
(***************************************************************************)
C16_AdjacentSizesMatch ==
    /\ Chained(net.layers)
    /\ loaded.done /\ loaded.err = "" => Chained(loaded.nn.layers)

(***************************************************************************)
(* Definitions used to state the properties of the matrix operations.      *)
(***************************************************************************)
BinaryOperations == {"Add", "MultiplyElementwise", "Multiply"}

\* The operands of the operation in hand are left as they were.
OperandsKept == m1' = m1 /\ m2' = m2

\* What the claim says of the sizes: the operands of Add and of
\* MultiplyElementwise differ in a count, the columns of the left operand of
\* Multiply are not as many as the rows of the right one.
SizesMismatch ==
    IF operation = "Multiply"
    THEN ColumnCount(m1) # RowCount(m2)
    ELSE RowCount(m1) # RowCount(m2) \/ ColumnCount(m1) # ColumnCount(m2)

ErrorsAndSizes ==
    operation \in BinaryOperations =>
        /\ SizesMismatch =>
               /\ ret.done
               /\ ret.err # ""
               /\ ret.m = NilMatrix
               /\ tasks = <<>>
        /\ ~SizesMismatch /\ ret.done =>
               /\ ret.err = ""
               /\ ret.m # NilMatrix
               /\ RowCount(ret.m) = RowCount(m1)
               /\ ColumnCount(ret.m) = ColumnCount(m2)
               /\ operation # "Multiply" => Size(ret.m) = Size(m1)

(***************************************************************************)
(* C17: Add and MultiplyElementwise return an error and no matrix exactly  *)
(* when the operands differ in row count or column count, Multiply exactly *)
(* when the column count of the left operand differs from the row count of *)
(* the right one; on success the result of Add and MultiplyElementwise has *)
(* the size of the operands, the result of Multiply has the rows of the    *)
(* left operand and the columns of the right one, and no step of the       *)
(* operation changes an operand.                                           *)
(***************************************************************************)
C17_SizeErrorsAndResultSizes ==
    [][/\ ErrorsAndSizes'
       /\ operation \in BinaryOperations => OperandsKept]_vars

\* Multiply has returned the 2x2 product of a 2x1 and a 1x2 matrix.
C17_Witness ==
    /\ operation = "Multiply"
    /\ ret.done
    /\ ret.err = ""
    /\ Size(m1) = <<2, 1>>
    /\ Size(m2) = <<1, 2>>
    /\ Size(ret.m) = <<2, 2>>

\* Add has refused operands of the same row count and different column counts.
C17_WitnessError ==
    /\ operation = "Add"
    /\ RowCount(m1) = RowCount(m2)
    /\ ColumnCount(m1) # ColumnCount(m2)
    /\ ret.done
    /\ ret.err # ""

\* n is a positive integer multiple of d.
IsPositiveMultiple(n, d) == \E k \in 1..(2 * MaxDim) : n = k * d

C18_WitnessError ==
    /\ operation = "Broadcast"
    /\ ret.err # ""
    /\ args[1] > RowCount(m1)
    /\ args[2] > ColumnCount(m1)

\* What the operation computes when its columns are done one after another.
SequentialResult ==
    CASE operation = "Add" -> Add(m1, m2)
      [] operation = "Multiply" -> Multiply(m1, m2)
      [] operation = "MultiplyByScalar" -> MultiplyByScalar(m1, args[1])
      [] operation = "MultiplyElementwise" -> MultiplyElementwise(m1, m2)
      [] operation = "T" -> T(m1)
      [] operation = "DeepCopy" -> DeepCopy(m1)
      [] operation = "Clip" -> Clip(m1, args[1], args[2])

\* The columns the goroutines are started for.
TaskColumnCount ==
    IF operation = "Multiply" THEN ColumnCount(m2) ELSE ColumnCount(m1)

AllCells(m) ==
    {<<r, c>> : r \in 0..(RowCount(m) - 1), c \in 0..(ColumnCount(m) - 1)}

\* The result is returned after the last goroutine has finished, fully
\* written, and is what the sequential computation gives.
ReturnsAfterJoin ==
    ret.done /\ ret.err = "" =>
        /\ wg = 0
        /\ \A t \in 1..Len(tasks) : tasks[t].done
        /\ {<<w.row, w.column>> : w \in written} = AllCells(ret.m)
        /\ ret.m = SequentialResult

(***************************************************************************)
(* C19 as stated: in each column-indexed operation every write of a task   *)
(* goes to the task's own column of the result matrix, and the result is   *)
(* returned fully written after every task has finished.                   *)
(***************************************************************************)
C19_TasksWriteOwnColumn ==
    operation \in ColumnOperations =>
        /\ \A w \in written : w.column = w.task
        /\ ReturnsAfterJoin

\* One task per column, each writing to its own column of the result, or for
\* Transpose to its own row of the result.
TasksKeepToTheirOwn ==
    operation \in ColumnOperations /\ ret.err = "" =>
        /\ Len(tasks) = TaskColumnCount
        /\ \A w \in written :
               IF operation = "T" THEN w.row = w.task ELSE w.column = w.task
        /\ ReturnsAfterJoin

(***************************************************************************)
(* C19, amended: in each column-indexed operation one task is started per  *)
(* column; every write of a task goes to the result matrix, to the task's  *)
(* own column of it, or for Transpose to the task's own row of it; no step *)
(* changes an operand; the result is returned only after every task has    *)
(* finished, fully written, and equal to the sequential result under every *)
(* interleaving of the tasks.                                              *)
(***************************************************************************)
C19_TasksWriteOwnColumnOrRow ==
    /\ []TasksKeepToTheirOwn
    /\ [][(operation \in ColumnOperations) => OperandsKept]_vars

\* Transpose has returned after a task wrote outside its own column.
C19_Witness ==
    /\ operation = "T"
    /\ ret.done
    /\ \E w \in written : w.column # w.task

\* Two tasks of Multiply are both in the middle of their loops.
C19_WitnessInterleaved ==
    /\ operation = "Multiply"
    /\ Len(tasks) = 2
    /\ \A t \in 1..2 : tasks[t].i = 1 /\ ~tasks[t].done
    /\ RowCount(m3) = 2

(***************************************************************************)
(* Definitions used to state the property of Accuracy.Calculate.           *)
(***************************************************************************)
\* Every row of the column (0-based) is within the tolerance.
ColumnWithinTolerance(c) ==
    \A r \in 0..(RowCount(yTrue) - 1) :
        ~FGt(FAbs(FSub(At(yHat, r, c), At(yTrue, r, c))), Precision)

ColumnsWithinTolerance ==
    {c \in 0..(ColumnCount(yTrue) - 1) : ColumnWithinTolerance(c)}

C20_WitnessContention ==
    /\ operation = "Calculate"
    /\ \E t \in 1..Len(tasks), u \in 1..Len(tasks) :
           tasks[t].pc = "lock" /\ tasks[u].pc = "write"

\* A call has returned with one sample right and one wrong.
C20_WitnessWrongSample ==
    /\ operation = "Calculate"
    /\ ret.done
    /\ ColumnCount(yTrue) = 2
    /\ correct = 1

(***************************************************************************)
(* Definitions used to state the properties of the library functions.      *)
(***************************************************************************)
\* The lowest row index among the largest values of column c (0-based).
LowestLargestRow(m, c) ==
    CHOOSE r \in 0..(RowCount(m) - 1) :
        /\ \A q \in 0..(RowCount(m) - 1) : ~FGt(At(m, q, c), At(m, r, c))
        /\ \A q \in 0..(r - 1) : FLt(At(m, q, c), At(m, r, c))

SampleColumns == 0..(ColumnCount(yHat) - 1)

(***************************************************************************)
(* C21: CategoricalAccuracy.Calculate returns the fraction of the columns  *)
(* in which the row of the largest value of yHat is the row of the largest *)
(* value of yTrue, SparseCategoricalAccuracy.Calculate the fraction of the *)
(* columns in which the row of the largest value of yHat is the integer in *)
(* row 0 of yTrue; of several equal largest values the lowest row counts.  *)
(***************************************************************************)
C21_CategoricalAccuracyIsArgmaxAgreement ==
    /\ operation = "CategoricalAccuracy" =>
           ret.m = FDiv(F(Cardinality({c \in SampleColumns :
                                  LowestLargestRow(yHat, c) = LowestLargestRow(yTrue, c)})),
                        F(ColumnCount(yHat)))
    /\ operation = "SparseCategoricalAccuracy" =>
           ret.m = FDiv(F(Cardinality({c \in SampleColumns :
                                  F(LowestLargestRow(yHat, c)) = At(yTrue, 0, c)})),
                        F(ColumnCount(yHat)))

\* Two samples of two classes: a tie in the prediction of the first, which
\* counts for class 0, and a wrong prediction of the second.
C21_Witness ==
    /\ operation = "CategoricalAccuracy"
    /\ Size(yHat) = <<2, 2>>
    /\ At(yHat, 0, 0) = At(yHat, 1, 0)
    /\ At(yTrue, 0, 0) = F(1)
    /\ At(yTrue, 1, 0) = F(0)
    /\ ret.m = Frac(1, 2)

\* Sparse labels: one sample of two right.
C21_WitnessSparse ==
    /\ operation = "SparseCategoricalAccuracy"
    /\ Size(yHat) = <<2, 2>>
    /\ At(yTrue, 0, 1) = F(1)
    /\ ret.m = Frac(1, 2)

\* The cost of one element: the scalar Apply of the loss.
ElementCost(name, label, predicted) ==
    IF name = "SquareLoss" THEN SquareHalf(FSub(label, predicted))
    ELSE FMul(FNeg(label), LogOfBit(predicted))

\* The cost of sample c: the costs of its elements summed over the rows.
SampleCost(name, c) ==
    SumSeq([k \in 1..RowCount(yTrue) |->
               ElementCost(name, At(yTrue, k - 1, c), At(yHat, k - 1, c))])

(***************************************************************************)
(* C22: for labels and predictions of R rows and N columns, ApplyMatrix of *)
(* a loss returns a matrix of exactly 1 row and N columns whose column j   *)
(* is the cost of sample j summed over the R rows, and                     *)
(* ApplyDerivativeMatrix returns a matrix of R rows and N columns.         *)
(***************************************************************************)
C22_ApplyMatrixIsOneRowPerBatch ==
    /\ operation = "ApplyMatrix" =>
           /\ Size(ret.m) = <<1, ColumnCount(yTrue)>>
           /\ \A c \in 0..(ColumnCount(yTrue) - 1) :
                  At(ret.m, 0, c) = SampleCost(args[1], c)
    /\ operation = "ApplyDerivativeMatrix" => Size(ret.m) = Size(yTrue)

(***************************************************************************)
(* C23: the cache nn.ForwardPropagate(X) returns for a network of L layers *)
(* has L + 1 entries; entry 0 holds X in both slots; entry k is what layer *)
(* k (from 1) returns for the second slot of entry k - 1, Dropout layers   *)
(* included; and the pass changes no weight and no bias.                   *)
(***************************************************************************)
\* The pairs layer k can return for the second slot of the entry before it.
PairsOfLayer(k) == {o.output : o \in layerForwardPropagate(layers[k], inputCache[k - 1][2])}

CacheHoldsEveryLayer ==
    pc \in {"cost", "panic"} /\ inputCache # <<>> /\ batchLayers = layers =>
        /\ DOMAIN inputCache = 0..Len(layers)
        /\ inputCache[0] = <<X[i + 1], X[i + 1]>>
        /\ \A k \in 1..Len(layers) : inputCache[k] \in PairsOfLayer(k)

C23_ForwardPropagateCachesEveryLayer ==
    /\ []CacheHoldsEveryLayer
    /\ [][(pc = "batch" /\ pc' \in {"cost", "panic"}) => layers' = layers]_vars

\* A forward pass of training has gone through a ReLU layer whose two slots
\* differ and the layer after it.
C23_Witness ==
    /\ pc = "cost"
    /\ Len(layers) = 2
    /\ inputCache[1][1] # inputCache[1][2]
    /\ ~IsNil(inputCache[2][2])

\* A forward pass of training has gone through a Dropout layer that zeroed
\* its input.
C23_WitnessDropout ==
    /\ pc = "cost"
    /\ HasDropout(layers)
    /\ inputCache[1][2] = FromInts(<< <<1>> >>)
    /\ inputCache[2] = <<FromInts(<< <<0>> >>), FromInts(<< <<0>> >>)>>
(***************************************************************************)
(* C24: for matrices of whole numbers A of m x n and B of n x p,           *)
(* T(Multiply(A, B)) equals Multiply(T(B), T(A)) exactly, T(A) has n rows  *)
(* and m columns, and T(T(A)) equals A.                                    *)
(***************************************************************************)
C24_TransposeReversesProduct ==
    operation = "T" =>
        /\ ret.m = m3
        /\ Size(args[1]) = <<ColumnCount(m1), RowCount(m1)>>
        /\ args[2] = m1

\* The product of a 2 x 2 matrix that is not symmetric and a 2 x 1 matrix has
\* been transposed.
C24_Witness ==
    /\ operation = "T"
    /\ Size(m1) = <<2, 2>>
    /\ Size(m2) = <<2, 1>>
    /\ At(m1, 0, 1) # At(m1, 1, 0)
    /\ Size(ret.m) = <<1, 2>>
    /\ ret.m # NewZeroMatrix(1, 2)
(***************************************************************************)
(* C25: every matrix that NewMatrix, IdentityMatrix, UnmarshalJSON, T,     *)
(* Multiply or Minor gives has rows of one length, and NewMatrix returns   *)
(* an error for data with no row or with rows of different lengths.        *)
(***************************************************************************)
Rectangular(m) == \A r \in 1..Len(m) : Len(m[r]) = Len(m[1])

C25_EveryMatrixIsRectangular ==
    /\ operation \in {"NewMatrix", "IdentityMatrix", "UnmarshalJSON", "T", "Minor"}
           /\ ret.err = "" => Rectangular(ret.m)
    /\ operation = "NewMatrix" /\ (Len(args[1]) = 0 \/ ~Rectangular(args[1])) =>
           ret.err # ""
(***************************************************************************)
(* C26: Inverse returns an error exactly when the matrix is not square or  *)
(* its determinant is zero; for a square matrix of one row or more whose   *)
(* determinant is not zero it returns a matrix and no error; and it leaves *)
(* the receiver as it was.                                                 *)
(***************************************************************************)
IsSingular(m) == RowCount(m) # ColumnCount(m) \/ Determinant(m).v = F(0)

C26_InverseFailsExactlyWhenSingular ==
    operation = "Inverse" =>
        /\ ret.err # "" <=> IsSingular(m1)
        /\ ret.err = "" => ~IsNil(ret.m)
        /\ m1 = args[1]
(***************************************************************************)
(* C27: one update of a Dense layer with weights W and bias b, for the     *)
(* gradient dZ and the input X of N columns, at learning rate lr and       *)
(* weight decay k, sets W to W - lr * ((dZ * X^T) / N + k * W) and b to    *)
(* b - lr * ((dZ * ones(N, 1)) / N + k * b), both from the W and b of      *)
(* before the update, and keeps the sizes of W and b.  Stated element by   *)
(* element.                                                                *)
(***************************************************************************)
\* Element (r, c) of dZ * X^T, and element r of dZ * ones(N, 1).
WeightGradient(r, c) ==
    SumSeq([n \in 1..ColumnCount(LayerInput) |->
               FMul(At(dZ, r, n - 1), At(LayerInput, c, n - 1))])

BiasGradient(r) == SumSeq([n \in 1..ColumnCount(LayerInput) |-> At(dZ, r, n - 1)])

\* old - lr * (gradient / N + k * old)
Descended(old, gradient) ==
    FSub(old, FMul(LearningRate(parameters),
                   FAdd(FDiv(gradient, F(ColumnCount(LayerInput))),
                        FMul(parameters.WeightDecay, old))))

C27_DenseUpdateIsOneDescentStep ==
    [][pc = "backward" /\ ThisLayer.Type = "Dense" =>
           LET W == ThisLayer.weights
               b == ThisLayer.bias
               updated == layers'[j + 1]
           IN  /\ Size(updated.weights) = Size(W)
               /\ Size(updated.bias) = Size(b)
               /\ \A r \in 0..(RowCount(W) - 1) :
                      /\ At(updated.bias, r, 0) = Descended(At(b, r, 0), BiasGradient(r))
                      /\ \A c \in 0..(ColumnCount(W) - 1) :
                             At(updated.weights, r, c) =
                                 Descended(At(W, r, c), WeightGradient(r, c))]_vars

\* A Dense layer has been updated with a weight decay, and its weights have
\* changed.
C27_Witness ==
    /\ pc = "batch"
    /\ i > 0
    /\ parameters.WeightDecay # F(0)
    /\ layers[1].weights # batchLayers[1].weights

\* A Dense layer has been updated from a batch of two samples with a gradient
\* that is not zero.
C27_WitnessTwoSamples ==
    /\ pc = "batch"
    /\ i > 0
    /\ ColumnCount(X[1]) = 2
    /\ layers[1].bias # batchLayers[1].bias
(***************************************************************************)
(* C28: Dropout.ForwardPropagate(X) returns a matrix of the size of X      *)
(* whose every element is the element of X at its place or 0, and          *)
(* Dropout.BackPropagate returns the gradient it is given and leaves the   *)
(* layer as it was.                                                        *)
(***************************************************************************)
C28_DropoutKeepsOrZeroes ==
    /\ operation = "Dropout.ForwardPropagate" =>
           /\ Size(ret.m) = Size(m1)
           /\ \A r \in 0..(RowCount(m1) - 1), c \in 0..(ColumnCount(m1) - 1) :
                  At(ret.m, r, c) \in {At(m1, r, c), F(0)}
    /\ operation = "Dropout.BackPropagate" =>
           /\ ret.m = m1
           /\ args[2] = args[1]
(***************************************************************************)
(* C29: Train sets the epoch counter of its parameters to 0 at its start   *)
(* and again before it returns after the last epoch, so the counter is 0   *)
(* when Train returns nil.  When Train returns the error of an invalid     *)
(* cost the counter is the number of epochs completed before, which is not *)
(* 0 from the second epoch on.  The parameters of the caller are never     *)
(* written.                                                                *)
(***************************************************************************)
C29_EpochCounterZeroOnNormalReturn ==
    /\ [](pc = "returned" /\ err = "" => parameters.currentEpoch = 0)
    /\ [](pc = "returned" /\ err = CostError => parameters.currentEpoch = e)
    /\ [][(pc = "idle" /\ pc' = "epoch") => parameters'.currentEpoch = 0]_vars
    /\ [][callerParameters' = callerParameters]_vars

\* Train has returned nil after two epochs or more.
C29_Witness ==
    /\ pc = "returned"
    /\ err = ""
    /\ e >= 2
    /\ parameters.currentEpoch = 0

\* Train has returned the error of an invalid cost in its second epoch or
\* later.
C29_WitnessInvalidCost ==
    /\ pc = "returned"
    /\ err = CostError
    /\ e >= 1

\* The statement as the specification has it: the counter is 0 whenever a
\* Train call that passed the validation of the shapes has returned.
C29_EpochCounterZeroOnEveryReturn ==
    pc = "returned" /\ err \in {"", CostError} => parameters.currentEpoch = 0
(***************************************************************************)
(* C30: loading a network file either returns an error or gives a network  *)
(* whose every layer is a Dense or a Dropout layer, none nil; a file with  *)
(* a layer whose "Type" is absent or is neither "Dense" nor "Dropout" is   *)
(* refused.                                                                *)
(***************************************************************************)
\* Some layer of the file has no "Type" or one that names no layer.
NamesUnknownLayerType(d) ==
    \E k \in 1..Len(Field(d, "Layers").v) :
        LET l == Field(d, "Layers").v[k]
        IN  \/ Field(l, "Type").t # "string"
            \/ /\ Field(l, "Type").t = "string"
               /\ Field(l, "Type").v \notin {"Dense", "Dropout"}

C30_LoadedLayersAreDenseOrDropout ==
    loaded.done =>
        /\ loaded.err = "" =>
               \A k \in 1..Len(loaded.nn.layers) :
                   /\ loaded.nn.layers[k] # NilLayer
                   /\ loaded.nn.layers[k].Type \in {"Dense", "Dropout"}
        /\ NamesUnknownLayerType(doc) => loaded.err # ""
=============================================================================
